---- MODULE Spec2Model ----
(***************************************************************************)
(* Session controller of the multi-modal quiz platform: the game-session   *)
(* store (mockData), the host commands start / next / end, the             *)
(* submit-answer route with its own module-level store, and the logical    *)
(* clock that stands for new Date().                                       *)
(***************************************************************************)
EXTENDS Integers, Sequences, FiniteSets, TLC

(* ---------------------------------------------------------------- bounds *)
MaxRounds == 2
MaxTime == 2
MaxObjects == 2

(* ------------------------------------------------------- program constants *)
DefaultQuestionsPerGame == 10
DefaultTimePerQuestion == 30
DefaultPointsPerCorrect == 100

(* ------------------------------------------------------------ input sets *)
HostUser == "u1"
Users == {"u1", "u2", "u3"}
Callers == Users \cup {"no_token", "bad_token"}
SessionIds == {"s1"}
Rooms == {"room1"}
ReqIds == {"r1", "r2"}
FirstRequest == {"r1"}
Answers == {<<"A">>, <<"true">>}
TimesToRespond == {4}
QuestionIdInputs == 0..MaxRounds
ObjIds == 1..MaxObjects
SpeedBonusInputs == {TRUE}
PlayerLists == {<<"u1", "u2">>}
QuestionTypeLists == {<<"multiple_choice", "true_false">>}

GameStatus == {"waiting", "countdown", "question", "results", "leaderboard", "finished"}

(* ----------------------------------------------------------- data values *)
Range(s) == {s[i] : i \in 1..Len(s)}

Range1(f) == {f[x] : x \in DOMAIN f}

EmptyMap == [x \in {} |-> 0]

NoGyroscope == [present |-> FALSE, alpha |-> 0, beta |-> 0, gamma |-> 0]

Gyroscope(a, b, c) == [present |-> TRUE, alpha |-> a, beta |-> b, gamma |-> c]

\* questionTemplates: mc_1, tf_1, om_1, vc_1, gr_1, mm_1, and a template whose
\* type tag is none of the QuestionType values
Template(type) ==
  CASE type = "multiple_choice" ->
         [correct_answer |-> <<"A">>, target |-> NoGyroscope, points |-> 100, time_limit |-> 15]
    [] type = "true_false" ->
         [correct_answer |-> <<"true">>, target |-> NoGyroscope, points |-> 100, time_limit |-> 10]
    [] type = "orientation_match" ->
         [correct_answer |-> << >>, target |-> Gyroscope(0, 0, 0), points |-> 200, time_limit |-> 15]
    [] type = "voice_command" ->
         [correct_answer |-> <<"hello", "world">>, target |-> NoGyroscope, points |-> 150, time_limit |-> 10]
    [] type = "gesture_recognition" ->
         [correct_answer |-> <<"thumbs_up">>, target |-> NoGyroscope, points |-> 180, time_limit |-> 15]
    [] type = "multi_modal" ->
         [correct_answer |-> <<"yes_thumbs_up">>, target |-> NoGyroscope, points |-> 300, time_limit |-> 20]
    [] OTHER ->
         [correct_answer |-> <<"A">>, target |-> NoGyroscope, points |-> 100, time_limit |-> 15]

\* createQuestionFromTemplate: the question at list position i; the id is unique
\* per position, the rest is copied from the template.  A text (an answer, a
\* phrase) is the sequence of its space-separated words.
Question(i, type) ==
  [id |-> i, type |-> type,
   correct_answer |-> Template(type).correct_answer,
   target_data |-> Template(type).target,
   points |-> Template(type).points,
   time_limit |-> Template(type).time_limit]

NoQuestion ==
  [id |-> 0, type |-> "none", correct_answer |-> << >>, target_data |-> NoGyroscope,
   points |-> 0, time_limit |-> 0]

\* generateGameQuestionSet: totalQuestions questions (none when the count is
\* not positive), their types in the (shuffled) order given by types.
generateGameQuestionSet(totalQuestions, types) ==
  [i \in 1..totalQuestions |-> Question(i, types[((i - 1) % Len(types)) + 1])]

\* gameEngine.current_round = undefined
UndefinedRound == [defined |-> FALSE, question |-> NoQuestion, responses |-> << >>]

\* a GameRound as the start and next handlers build it
NewRound(question) == [defined |-> TRUE, question |-> question, responses |-> << >>]

ZeroAccuracy == [num |-> 0, den |-> 1]

StoppedTimer == [total_time |-> 0, remaining_time |-> 0, is_running |-> FALSE]

NewPlayer(u, rank) == [id |-> u, total_score |-> 0, rank |-> rank]

\* a score entry.  Of the time stamps the handlers write, the records keep
\* session.end_time and the score entries' updated_at.
NewScore(u, rank, t) ==
  [user_id |-> u, score |-> 0, rank |-> rank, accuracy |-> ZeroAccuracy, updated_at |-> t]

\* the GameEngine object both session-creation endpoints build
NewEngine(room, total, questions, players, scores, speed) ==
  [session |-> [room_id |-> room, status |-> "waiting", current_round |-> 0,
                total_rounds |-> total, end_time |-> 0],
   current_round |-> UndefinedRound,
   questions |-> questions,
   players |-> players,
   scores |-> scores,
   settings |-> [time_per_question |-> DefaultTimePerQuestion,
                 points_per_correct |-> DefaultPointsPerCorrect,
                 speed_bonus_enabled |-> speed],
   status |-> "waiting",
   timer |-> StoppedTimer]

(* ------------------------------------------- the websocket hub: its data *)
\* the capacity of a client's send channel (256 in the source)
MaxQueue == 1
\* how many messages the hub and the read loops create in one behaviour
MaxMessages == 2

\* the websocket connections that are opened, the user and the room each
\* one gives in its query
Connections == {"c1", "c2"}
UserOf(c) == IF c = "c1" THEN "u1" ELSE "u2"
RoomOf(c) == "room1"

\* the goroutines that call broadcastToRoom: Hub.run and each client's readPump
HubGoroutine == "hub"
Goroutines == {HubGoroutine} \cup Connections

\* the Message structure
Message(type, user, room, n) == [type |-> type, user |-> user, room |-> room, n |-> n]
NoMessage == Message("none", "none", "none", 0)

\* a client's send channel
NoChannel == [buf |-> << >>, closed |-> FALSE]

\* a goroutine that is not inside broadcastToRoom
NoBroadcast == [active |-> FALSE, room |-> "none", msg |-> NoMessage, todo |-> {}, dropping |-> "none"]

\* Hub.run waiting in its select
HubSelect == [pc |-> "select", client |-> "none"]

(* ------------------------------------------------------------- variables *)
VARIABLES
  heap,              \* the GameEngine objects: object id -> GameEngine
  gameSessions,      \* mockData.gameSessions : session id -> reference to a GameEngine
  roomSessions,      \* mockData.roomSessions : room id -> session id
  mockGameSessions,  \* the answer route's own store : session id -> reference
  reqs,              \* submit-answer requests in flight: where each is suspended
  creating,          \* rooms of create requests suspended after their room check
  now,               \* new Date()
  last               \* the operation of the last step and its response

VARIABLES
  clients,           \* Hub.clients : the set of registered clients
  rooms,             \* Hub.rooms : room id -> set of clients (an entry may be empty)
  send,              \* Client.send : the buffered channel of each client
  written,           \* what writePump wrote to each client's socket, in order
  reader,            \* where each connection's handler and readPump stand
  writer,            \* where each connection's writePump stands
  hub,               \* where Hub.run stands
  bcast,             \* the call of broadcastToRoom each goroutine is inside
  published,         \* what was published on the channels "room:<id>"
  roomState,         \* the keys "room_state:<id>" : room id -> participants
  panic,             \* the runtime panic that ended the process, or "none"
  seq,               \* the number of messages created so far
  ended              \* message number -> the value of seq when its broadcast returned

VARIABLES
  hook,              \* the host's useGameEngine hook: its timer, its interval, its calls
  gyro,              \* a useGyroscope hook: rawData, history, smoothingFactor
  ws                 \* a WebSocketClient: its socket, its counters, its timer

serverVars == <<heap, gameSessions, roomSessions, mockGameSessions, reqs, creating, now, last>>
hubVars == <<clients, rooms, send, written, reader, writer, hub, bcast, published,
             roomState, panic, seq, ended>>
clientVars == <<hook, gyro, ws>>
vars == <<heap, gameSessions, roomSessions, mockGameSessions, reqs, creating, now, last,
          clients, rooms, send, written, reader, writer, hub, bcast, published,
          roomState, panic, seq, ended, hook, gyro, ws>>

\* no page is open: no hook is mounted and no websocket client was made
NotMounted == [mounted |-> FALSE]
ClientIdle ==
  /\ hook = NotMounted
  /\ gyro = NotMounted
  /\ ws = NotMounted

\* the websocket service after main: the hub runs, no connection was opened
HubIdle ==
  /\ clients = {}
  /\ rooms = << >>
  /\ send = [c \in Connections |-> NoChannel]
  /\ written = [c \in Connections |-> << >>]
  /\ reader = [c \in Connections |-> "none"]
  /\ writer = [c \in Connections |-> "none"]
  /\ hub = HubSelect
  /\ bcast = [g \in Goroutines |-> NoBroadcast]
  /\ published = {}
  /\ roomState = << >>
  /\ panic = "none"
  /\ seq = 0
  /\ ended = << >>

\* what a handler answered: the operation and the response code ("ok" for
\* success, "pending" while the handler is suspended)
Response(op, code) == [op |-> op, code |-> code]

(* ------------------------------------------------------------ mockData  *)
getGameSession(sid) == sid \in DOMAIN gameSessions

getGameSessionByRoom(room) ==
  room \in DOMAIN roomSessions /\ roomSessions[room] \in DOMAIN gameSessions

\* this.gameSessions[sessionId] = gameEngine, gameEngine a reference
updateGameSession(sid, ref) ==
  [x \in (DOMAIN gameSessions) \cup {sid} |-> IF x = sid THEN ref ELSE gameSessions[x]]

\* the GameEngine object mockData holds for the session
Engine(sid) == heap[gameSessions[sid]]

\* the handlers mutate the object in place; storing it again keeps the reference
Mutate(ref, engine) == [heap EXCEPT ![ref] = engine]

(* ------------------------------------------------- ranking and statistics *)
\* an insertion that ignores the scores
InsertInFront(x, sorted) == <<x>> \o sorted

RECURSIVE InsertByScore(_, _)
\* one step of the stable sort by (a, b) => b.score - a.score: x goes behind
\* every entry whose score is at least x.score
InsertByScore(x, sorted) ==
  IF sorted = << >> THEN <<x>>
  ELSE IF Head(sorted).score >= x.score
       THEN <<Head(sorted)>> \o InsertByScore(x, Tail(sorted))
       ELSE <<x>> \o sorted

RECURSIVE SortScores(_)
\* gameEngine.scores.sort((a, b) => b.score - a.score), a stable sort
SortScores(scores) ==
  IF scores = << >> THEN << >>
  ELSE InsertByScore(scores[Len(scores)], SortScores(SubSeq(scores, 1, Len(scores) - 1)))

\* scores.forEach((score, index) => { score.rank = index + 1 })
AssignRanks(scores) == [i \in 1..Len(scores) |-> [scores[i] EXCEPT !.rank = i]]

\* scores.find(s => s.user_id === u): the index of the first match, 0 if none
FindScore(scores, u) ==
  IF \E i \in 1..Len(scores) : scores[i].user_id = u
  THEN CHOOSE i \in 1..Len(scores) :
         scores[i].user_id = u /\ \A j \in 1..(i - 1) : scores[j].user_id # u
  ELSE 0

\* players.forEach(p => { p.rank = score.rank }) for the players that have a score
UpdatePlayerRanks(players, scores) ==
  [i \in 1..Len(players) |->
     IF FindScore(scores, players[i].id) # 0
     THEN [players[i] EXCEPT !.rank = scores[FindScore(scores, players[i].id)].rank]
     ELSE players[i]]

\* the finished handlers also copy the score: player.total_score = playerScore.score
UpdatePlayerRanksAndTotals(players, scores) ==
  [i \in 1..Len(players) |->
     IF FindScore(scores, players[i].id) # 0
     THEN [players[i] EXCEPT !.rank = scores[FindScore(scores, players[i].id)].rank,
                             !.total_score = scores[FindScore(scores, players[i].id)].score]
     ELSE players[i]]

\* round.responses.filter(r => r.user_id === u).filter(r => r.is_correct).length
CorrectResponses(round, u) ==
  Cardinality({i \in 1..Len(round.responses) :
                 round.responses[i].user_id = u /\ round.responses[i].is_correct})

(* ------------------------------------------------------ authentication  *)
\* getTokenFromRequest / verifyToken: the rejection code, "ok" when the token verifies
AuthCode(caller) ==
  IF caller = "no_token" THEN "UNAUTHORIZED"
  ELSE IF caller = "bad_token" THEN "INVALID_TOKEN"
  ELSE "ok"

\* const isHost = true
isHost(caller, engine) == TRUE

(* ---------------------------------------------------------- start game  *)
\* the engine after "Start the game" .. "Reset all player scores for new game"
StartedEngine(engine, t) ==
  [engine EXCEPT
     !.session.status = "countdown",
     !.session.current_round = 1,
     !.status = "countdown",
     !.current_round = NewRound(engine.questions[1]),
     !.timer = [total_time |-> engine.settings.time_per_question,
                remaining_time |-> engine.settings.time_per_question,
                is_running |-> FALSE],
     !.players = [i \in 1..Len(engine.players) |->
                    [engine.players[i] EXCEPT !.total_score = 0, !.rank = 0]],
     !.scores = [i \in 1..Len(engine.players) |-> NewScore(engine.players[i].id, 0, t)]]

\* a start handler without the check of the session status
StartCodeAnyState(caller, sid) ==
  IF AuthCode(caller) # "ok" THEN AuthCode(caller)
  ELSE IF ~getGameSession(sid) THEN "SESSION_NOT_FOUND"
  ELSE IF ~isHost(caller, Engine(sid)) THEN "ACCESS_DENIED"
  ELSE IF Len(Engine(sid).players) = 0 THEN "NO_PLAYERS"
  ELSE IF Len(Engine(sid).questions) = 0 THEN "NO_QUESTIONS"
  ELSE "ok"

StartCode(caller, sid) ==
  IF AuthCode(caller) # "ok" THEN AuthCode(caller)
  ELSE IF ~getGameSession(sid) THEN "SESSION_NOT_FOUND"
  ELSE IF ~isHost(caller, Engine(sid)) THEN "ACCESS_DENIED"
  ELSE IF Engine(sid).status # "waiting" THEN "INVALID_STATE"
  ELSE IF Len(Engine(sid).players) = 0 THEN "NO_PLAYERS"
  ELSE IF Len(Engine(sid).questions) = 0 THEN "NO_QUESTIONS"
  ELSE "ok"

\* POST /api/game/session/[sessionId]/start
StartGame(caller, sid) ==
  /\ heap' = IF StartCode(caller, sid) = "ok"
             THEN Mutate(gameSessions[sid], StartedEngine(Engine(sid), now))
             ELSE heap
  /\ last' = Response("start", StartCode(caller, sid))
  /\ UNCHANGED <<gameSessions, roomSessions, mockGameSessions, reqs, creating, now>>
  /\ UNCHANGED hubVars
  /\ UNCHANGED clientVars

(* -------------------------------------------------------- next question *)
\* a finish that also resets the round counter
FinishedByNextResetsRound(engine, t) ==
  [engine EXCEPT
     !.session.status = "finished",
     !.session.current_round = 0,
     !.session.end_time = t,
     !.status = "finished",
     !.current_round = UndefinedRound,
     !.timer = StoppedTimer,
     !.scores = [i \in 1..Len(engine.scores) |->
                   [AssignRanks(SortScores(engine.scores))[i] EXCEPT !.updated_at = t]],
     !.players = UpdatePlayerRanksAndTotals(engine.players,
                                            AssignRanks(SortScores(engine.scores)))]

\* "Game is finished": the branch taken when nextRoundNumber > total_rounds
FinishedByNext(engine, t) ==
  [engine EXCEPT
     !.session.status = "finished",
     !.session.end_time = t,
     !.status = "finished",
     !.current_round = UndefinedRound,
     !.timer = StoppedTimer,
     !.scores = [i \in 1..Len(engine.scores) |->
                   [AssignRanks(SortScores(engine.scores))[i] EXCEPT !.updated_at = t]],
     !.players = UpdatePlayerRanksAndTotals(engine.players,
                                            AssignRanks(SortScores(engine.scores)))]

\* score.accuracy = totalQuestions > 0
\*   ? (score / (totalQuestions * points_per_correct)) * 100 : 0, as a fraction of 100
NextAccuracy(score, totalQuestions, pointsPerCorrect) ==
  IF totalQuestions > 0
  THEN [num |-> score, den |-> totalQuestions * pointsPerCorrect]
  ELSE ZeroAccuracy

\* an advance that installs the question of the round that just ended
AdvancedEngineSameQuestion(engine, t) ==
  [engine EXCEPT
     !.session.current_round = engine.session.current_round + 1,
     !.status = "countdown",
     !.current_round = NewRound(engine.questions[engine.session.current_round])]

\* "Create next round" .. "Update scores (calculate accuracy)"
AdvancedEngine(engine, t) ==
  LET nextRoundNumber == engine.session.current_round + 1 IN
  [engine EXCEPT
     !.session.current_round = nextRoundNumber,
     !.status = "countdown",
     !.current_round = NewRound(engine.questions[nextRoundNumber]),
     !.timer = [total_time |-> engine.settings.time_per_question,
                remaining_time |-> engine.settings.time_per_question,
                is_running |-> FALSE],
     !.scores = [i \in 1..Len(engine.scores) |->
                   IF \E j \in 1..Len(engine.players) :
                        engine.players[j].id = engine.scores[i].user_id
                   THEN [engine.scores[i] EXCEPT
                           !.accuracy = NextAccuracy(engine.scores[i].score,
                                                     nextRoundNumber - 1,
                                                     engine.settings.points_per_correct),
                           !.updated_at = t]
                   ELSE engine.scores[i]]]

\* a next handler that only goes on from 'results'
NextStatesResultsOnly == {"results"}

\* the states in which the next handler goes on: ['question', 'results']
NextStates == {"question", "results"}

NextCode(caller, sid) ==
  IF AuthCode(caller) # "ok" THEN AuthCode(caller)
  ELSE IF ~getGameSession(sid) THEN "SESSION_NOT_FOUND"
  ELSE IF ~isHost(caller, Engine(sid)) THEN "ACCESS_DENIED"
  ELSE IF Engine(sid).status \notin NextStates THEN "INVALID_STATE"
  ELSE IF Engine(sid).session.current_round + 1 > Engine(sid).session.total_rounds
       THEN "game_ended"
  ELSE IF Engine(sid).session.current_round + 1 > Len(Engine(sid).questions)
       THEN "NO_MORE_QUESTIONS"
  ELSE "ok"

\* POST /api/game/session/[sessionId]/next
NextQuestion(caller, sid) ==
  /\ heap' =
       CASE NextCode(caller, sid) = "game_ended" ->
              Mutate(gameSessions[sid], FinishedByNext(Engine(sid), now))
         [] NextCode(caller, sid) = "ok" ->
              Mutate(gameSessions[sid], AdvancedEngine(Engine(sid), now))
         [] OTHER -> heap
  /\ last' = Response("next", NextCode(caller, sid))
  /\ UNCHANGED <<gameSessions, roomSessions, mockGameSessions, reqs, creating, now>>
  /\ UNCHANGED hubVars
  /\ UNCHANGED clientVars

(* ------------------------------------------------------------- end game *)
\* score.accuracy = totalQuestions > 0 ? (correctResponses / totalQuestions) * 100 : 0
EndAccuracy(correctResponses, totalQuestions) ==
  IF totalQuestions > 0 THEN [num |-> correctResponses, den |-> totalQuestions]
  ELSE ZeroAccuracy

\* an end that hands out fresh score entries
EndedEngineResetsScores(engine, t) ==
  LET cleared == [engine EXCEPT
                    !.session.status = "finished",
                    !.session.end_time = t,
                    !.status = "finished",
                    !.current_round = UndefinedRound,
                    !.timer = StoppedTimer]
      ranked == AssignRanks(SortScores(cleared.scores))
      scores == [i \in 1..Len(ranked) |->
                   [ranked[i] EXCEPT
                      !.accuracy = EndAccuracy(
                         CorrectResponses(cleared.current_round, ranked[i].user_id),
                         cleared.session.current_round),
                      !.score = 0,
                      !.updated_at = t]]
  IN [cleared EXCEPT !.scores = scores,
                     !.players = UpdatePlayerRanksAndTotals(cleared.players, scores)]

\* "End the game" .. "Update player ranks"; the statistics read
\* gameEngine.current_round after it was set to undefined
EndedEngine(engine, t) ==
  LET cleared == [engine EXCEPT
                    !.session.status = "finished",
                    !.session.end_time = t,
                    !.status = "finished",
                    !.current_round = UndefinedRound,
                    !.timer = StoppedTimer]
      ranked == AssignRanks(SortScores(cleared.scores))
      scores == [i \in 1..Len(ranked) |->
                   [ranked[i] EXCEPT
                      !.accuracy = EndAccuracy(
                         CorrectResponses(cleared.current_round, ranked[i].user_id),
                         cleared.session.current_round),
                      !.updated_at = t]]
  IN [cleared EXCEPT !.scores = scores,
                     !.players = UpdatePlayerRanksAndTotals(cleared.players, scores)]

EndCode(caller, sid) ==
  IF AuthCode(caller) # "ok" THEN AuthCode(caller)
  ELSE IF ~getGameSession(sid) THEN "SESSION_NOT_FOUND"
  ELSE IF ~isHost(caller, Engine(sid)) THEN "ACCESS_DENIED"
  ELSE "ok"

\* POST /api/game/session/[sessionId]/end
EndGame(caller, sid) ==
  /\ heap' = IF EndCode(caller, sid) = "ok"
             THEN Mutate(gameSessions[sid], EndedEngine(Engine(sid), now))
             ELSE heap
  /\ last' = Response("end", EndCode(caller, sid))
  /\ UNCHANGED <<gameSessions, roomSessions, mockGameSessions, reqs, creating, now>>
  /\ UNCHANGED hubVars
  /\ UNCHANGED clientVars

(* -------------------------------------------------------- submit answer *)
NoVoice == [present |-> FALSE, text |-> << >>, confidence |-> 0]

NoGesture == [present |-> FALSE, type |-> "none", confidence |-> 0]

\* a request body without response_data
NoSensorData == [gyroscope |-> NoGyroscope, voice |-> NoVoice, gesture |-> NoGesture]

Abs(x) == IF x < 0 THEN -x ELSE x

Max(a, b) == IF a > b THEN a ELSE b

\* String.prototype.toLowerCase on one word
LowerWord(w) ==
  CASE w = "Hello" -> "hello"
    [] w = "World" -> "world"
    [] OTHER -> w

toLowerCase(text) == [i \in 1..Len(text) |-> LowerWord(text[i])]

\* calculateTextSimilarity: the fraction matches / max(words1.length, words2.length);
\* identical texts give 1
calculateTextSimilarity(text1, text2) ==
  IF text1 = text2 THEN [num |-> 1, den |-> 1]
  ELSE LET words1 == toLowerCase(text1)
           words2 == toLowerCase(text2)
           matches == Cardinality({i \in 1..Len(words1) : words1[i] \in Range(words2)})
       IN [num |-> matches, den |-> Max(Len(words1), Len(words2))]

\* an evaluation that asks for an orientation accuracy of 80
EvaluateStrict(question, answer, data) ==
  CASE question.type \in {"multiple_choice", "true_false"} ->
         [supported |-> TRUE, is_correct |-> answer = question.correct_answer,
          accuracy |-> [num |-> IF answer = question.correct_answer THEN 100 ELSE 0, den |-> 1],
          confidence |-> 100]
    [] question.type = "orientation_match" ->
         IF data.gyroscope.present /\ question.target_data.present
         THEN LET totalDiff == Abs(question.target_data.alpha - data.gyroscope.alpha)
                             + Abs(question.target_data.beta - data.gyroscope.beta)
                             + Abs(question.target_data.gamma - data.gyroscope.gamma)
                  acc3 == Max(0, 300 - totalDiff)
              IN [supported |-> TRUE, is_correct |-> acc3 >= 240,
                  accuracy |-> [num |-> acc3, den |-> 3], confidence |-> acc3 \div 3]
         ELSE [supported |-> TRUE, is_correct |-> FALSE,
               accuracy |-> [num |-> 0, den |-> 1], confidence |-> 100]
    [] question.type = "voice_command" ->
         IF data.voice.present
         THEN LET similarity == calculateTextSimilarity(toLowerCase(data.voice.text),
                                                        toLowerCase(question.correct_answer))
              IN [supported |-> TRUE,
                  is_correct |-> 10 * similarity.num >= 7 * similarity.den,
                  accuracy |-> [num |-> similarity.num * 100, den |-> similarity.den],
                  confidence |-> data.voice.confidence]
         ELSE [supported |-> TRUE, is_correct |-> FALSE,
               accuracy |-> [num |-> 0, den |-> 1], confidence |-> 100]
    [] question.type = "gesture_recognition" ->
         IF data.gesture.present
         THEN [supported |-> TRUE,
               is_correct |-> <<data.gesture.type>> = question.correct_answer,
               accuracy |-> [num |-> IF <<data.gesture.type>> = question.correct_answer
                                     THEN data.gesture.confidence ELSE 0,
                             den |-> 1],
               confidence |-> data.gesture.confidence]
         ELSE [supported |-> TRUE, is_correct |-> FALSE,
               accuracy |-> [num |-> 0, den |-> 1], confidence |-> 100]
    [] question.type = "multi_modal" ->
         [supported |-> TRUE, is_correct |-> TRUE,
          accuracy |-> [num |-> 75, den |-> 1], confidence |-> 80]
    [] OTHER ->
         [supported |-> FALSE, is_correct |-> FALSE,
          accuracy |-> [num |-> 0, den |-> 1], confidence |-> 100]

\* the switch on currentQuestion.type: is_correct, accuracy (a fraction, in
\* percent) and confidence (in percent); supported is FALSE in the default case
Evaluate(question, answer, data) ==
  CASE question.type \in {"multiple_choice", "true_false"} ->
         [supported |-> TRUE, is_correct |-> answer = question.correct_answer,
          accuracy |-> [num |-> IF answer = question.correct_answer THEN 100 ELSE 0, den |-> 1],
          confidence |-> 100]
    [] question.type = "orientation_match" ->
         IF data.gyroscope.present /\ question.target_data.present
         THEN LET totalDiff == Abs(question.target_data.alpha - data.gyroscope.alpha)
                             + Abs(question.target_data.beta - data.gyroscope.beta)
                             + Abs(question.target_data.gamma - data.gyroscope.gamma)
                  acc3 == Max(0, 300 - totalDiff)
              IN [supported |-> TRUE, is_correct |-> acc3 >= 210,
                  accuracy |-> [num |-> acc3, den |-> 3], confidence |-> acc3 \div 3]
         ELSE [supported |-> TRUE, is_correct |-> FALSE,
               accuracy |-> [num |-> 0, den |-> 1], confidence |-> 100]
    [] question.type = "voice_command" ->
         IF data.voice.present
         THEN LET similarity == calculateTextSimilarity(toLowerCase(data.voice.text),
                                                        toLowerCase(question.correct_answer))
              IN [supported |-> TRUE,
                  is_correct |-> 10 * similarity.num >= 7 * similarity.den,
                  accuracy |-> [num |-> similarity.num * 100, den |-> similarity.den],
                  confidence |-> data.voice.confidence]
         ELSE [supported |-> TRUE, is_correct |-> FALSE,
               accuracy |-> [num |-> 0, den |-> 1], confidence |-> 100]
    [] question.type = "gesture_recognition" ->
         IF data.gesture.present
         THEN [supported |-> TRUE,
               is_correct |-> <<data.gesture.type>> = question.correct_answer,
               accuracy |-> [num |-> IF <<data.gesture.type>> = question.correct_answer
                                     THEN data.gesture.confidence ELSE 0,
                             den |-> 1],
               confidence |-> data.gesture.confidence]
         ELSE [supported |-> TRUE, is_correct |-> FALSE,
               accuracy |-> [num |-> 0, den |-> 1], confidence |-> 100]
    [] question.type = "multi_modal" ->
         [supported |-> TRUE, is_correct |-> TRUE,
          accuracy |-> [num |-> 75, den |-> 1], confidence |-> 80]
    [] OTHER ->
         [supported |-> FALSE, is_correct |-> FALSE,
          accuracy |-> [num |-> 0, den |-> 1], confidence |-> 100]

\* a bonus rounded down
PointsAwardedFloor(question, isCorrect, speedBonus, timeToRespond) ==
  IF ~isCorrect THEN 0
  ELSE IF ~speedBonus THEN question.points
  ELSE IF 2 * timeToRespond < question.time_limit
       THEN question.points + (question.points \div 2)
  ELSE IF 4 * timeToRespond < 3 * question.time_limit
       THEN question.points + (question.points \div 4)
  ELSE question.points

\* "Calculate points": Math.round(points * 0.5) and Math.round(points * 0.25)
\* on the ratio time_to_respond / time_limit
PointsAwarded(question, isCorrect, speedBonus, timeToRespond) ==
  IF ~isCorrect THEN 0
  ELSE IF ~speedBonus THEN question.points
  ELSE IF 2 * timeToRespond < question.time_limit
       THEN question.points + ((question.points + 1) \div 2)
  ELSE IF 4 * timeToRespond < 3 * question.time_limit
       THEN question.points + ((question.points + 2) \div 4)
  ELSE question.points

\* players.find(p => p.user.id === payload.userId): index of the first match, 0 if none
FindPlayer(players, u) ==
  IF \E i \in 1..Len(players) : players[i].id = u
  THEN CHOOSE i \in 1..Len(players) :
         players[i].id = u /\ \A j \in 1..(i - 1) : players[j].id # u
  ELSE 0

\* a duplicate check that looks at the first response only
ExistingResponseFirstOnly(round, u) ==
  Len(round.responses) > 0 /\ round.responses[1].user_id = u

\* current_round.responses.find(r => r.user_id === payload.userId)
ExistingResponse(round, u) ==
  \E i \in 1..Len(round.responses) : round.responses[i].user_id = u

\* the GameEngine object the answer route finds under the session id
AnswerEngine(sid) == heap[mockGameSessions[sid]]

\* a handler that does not compare question_id with the current question
SubmitCodeAnyQuestion(user, sid, qid, answer, data) ==
  IF sid = "" \/ qid = 0 THEN "INVALID_INPUT"
  ELSE IF sid \notin DOMAIN mockGameSessions THEN "SESSION_NOT_FOUND"
  ELSE IF FindPlayer(AnswerEngine(sid).players, user) = 0 THEN "NOT_A_PLAYER"
  ELSE IF AnswerEngine(sid).status \notin {"question", "countdown"} THEN "INVALID_STATE"
  ELSE IF ~AnswerEngine(sid).current_round.defined THEN "INVALID_QUESTION"
  ELSE IF ExistingResponse(AnswerEngine(sid).current_round, user) THEN "ALREADY_ANSWERED"
  ELSE IF ~Evaluate(AnswerEngine(sid).current_round.question, answer, data).supported
       THEN "UNSUPPORTED_QUESTION_TYPE"
  ELSE "ok"

\* a handler without the default case of the switch
SubmitCodeAnyType(user, sid, qid, answer, data) ==
  IF sid = "" \/ qid = 0 THEN "INVALID_INPUT"
  ELSE IF sid \notin DOMAIN mockGameSessions THEN "SESSION_NOT_FOUND"
  ELSE IF FindPlayer(AnswerEngine(sid).players, user) = 0 THEN "NOT_A_PLAYER"
  ELSE IF AnswerEngine(sid).status \notin {"question", "countdown"} THEN "INVALID_STATE"
  ELSE IF ~AnswerEngine(sid).current_round.defined
          \/ AnswerEngine(sid).current_round.question.id # qid THEN "INVALID_QUESTION"
  ELSE IF ExistingResponse(AnswerEngine(sid).current_round, user) THEN "ALREADY_ANSWERED"
  ELSE "ok"

SubmitCode(user, sid, qid, answer, data) ==
  IF sid = "" \/ qid = 0 THEN "INVALID_INPUT"
  ELSE IF sid \notin DOMAIN mockGameSessions THEN "SESSION_NOT_FOUND"
  ELSE IF FindPlayer(AnswerEngine(sid).players, user) = 0 THEN "NOT_A_PLAYER"
  ELSE IF AnswerEngine(sid).status \notin {"question", "countdown"} THEN "INVALID_STATE"
  ELSE IF ~AnswerEngine(sid).current_round.defined
          \/ AnswerEngine(sid).current_round.question.id # qid THEN "INVALID_QUESTION"
  ELSE IF ExistingResponse(AnswerEngine(sid).current_round, user) THEN "ALREADY_ANSWERED"
  ELSE IF ~Evaluate(AnswerEngine(sid).current_round.question, answer, data).supported
       THEN "UNSUPPORTED_QUESTION_TYPE"
  ELSE "ok"

\* an update that adds the points to the first score entry
AnsweredEngineFirstScore(engine, user, qid, answer, data, timeToRespond, t) ==
  LET result == Evaluate(engine.current_round.question, answer, data)
      pointsAwarded == PointsAwarded(engine.current_round.question, result.is_correct,
                                     engine.settings.speed_bonus_enabled, timeToRespond)
      playerResponse == [user_id |-> user, question_id |-> qid,
                         is_correct |-> result.is_correct,
                         response_data |-> data,
                         accuracy_score |-> result.accuracy,
                         time_to_respond |-> timeToRespond,
                         points_awarded |-> pointsAwarded]
      p == FindPlayer(engine.players, user)
      players == [engine.players EXCEPT ![p].total_score = @ + pointsAwarded]
      withScore == IF FindScore(engine.scores, user) = 0
                   THEN Append(engine.scores, NewScore(user, 0, t))
                   ELSE engine.scores
      updated == [withScore EXCEPT ![1].score = @ + pointsAwarded, ![1].updated_at = t]
      ranked == AssignRanks(SortScores(updated))
  IN [engine EXCEPT
        !.current_round.responses = Append(@, playerResponse),
        !.scores = ranked,
        !.players = UpdatePlayerRanks(players, ranked)]

\* "Create player response" .. "Update player ranks"
AnsweredEngine(engine, user, qid, answer, data, timeToRespond, t) ==
  LET result == Evaluate(engine.current_round.question, answer, data)
      pointsAwarded == PointsAwarded(engine.current_round.question, result.is_correct,
                                     engine.settings.speed_bonus_enabled, timeToRespond)
      playerResponse == [user_id |-> user, question_id |-> qid,
                         is_correct |-> result.is_correct,
                         response_data |-> data,
                         accuracy_score |-> result.accuracy,
                         time_to_respond |-> timeToRespond,
                         points_awarded |-> pointsAwarded]
      p == FindPlayer(engine.players, user)
      players == [engine.players EXCEPT ![p].total_score = @ + pointsAwarded]
      withScore == IF FindScore(engine.scores, user) = 0
                   THEN Append(engine.scores, NewScore(user, 0, t))
                   ELSE engine.scores
      k == FindScore(withScore, user)
      updated == [withScore EXCEPT ![k].score = @ + pointsAwarded, ![k].updated_at = t]
      ranked == AssignRanks(SortScores(updated))
  IN [engine EXCEPT
        !.current_round.responses = Append(@, playerResponse),
        !.scores = ranked,
        !.players = UpdatePlayerRanks(players, ranked)]

\* POST /api/game/answer up to "await verifyToken(token)"
SubmitBegin(r, hasToken) ==
  /\ reqs[r] = "idle"
  /\ reqs' = IF hasToken THEN [reqs EXCEPT ![r] = "verifyToken"] ELSE reqs
  /\ last' = IF hasToken THEN Response("await", "pending")
             ELSE Response("submit", "UNAUTHORIZED")
  /\ UNCHANGED <<heap, gameSessions, roomSessions, mockGameSessions, creating, now>>
  /\ UNCHANGED hubVars
  /\ UNCHANGED clientVars

\* verifyToken settled; the handler is suspended again at "await request.json()"
SubmitVerified(r, valid) ==
  /\ reqs[r] = "verifyToken"
  /\ reqs' = [reqs EXCEPT ![r] = IF valid THEN "json" ELSE "idle"]
  /\ last' = IF valid THEN Response("await", "pending")
             ELSE Response("submit", "INVALID_TOKEN")
  /\ UNCHANGED <<heap, gameSessions, roomSessions, mockGameSessions, creating, now>>
  /\ UNCHANGED hubVars
  /\ UNCHANGED clientVars

\* the rest of the handler, from the parsed body to the response, runs without
\* suspension; user is payload.userId of the verified token
SubmitBody(r, user, sid, qid, answer, data, timeToRespond) ==
  /\ reqs[r] = "json"
  /\ reqs' = [reqs EXCEPT ![r] = "idle"]
  /\ heap' = IF SubmitCode(user, sid, qid, answer, data) = "ok"
             THEN Mutate(mockGameSessions[sid],
                         AnsweredEngine(AnswerEngine(sid), user, qid, answer, data,
                                        timeToRespond, now))
             ELSE heap
  /\ last' = Response("submit", SubmitCode(user, sid, qid, answer, data))
  /\ UNCHANGED <<gameSessions, roomSessions, mockGameSessions, creating, now>>
  /\ UNCHANGED hubVars
  /\ UNCHANGED clientVars

(* ------------------------------------------------------- create session *)
\* the objects some store still refers to
Live(sessions, answerStore) == Range1(sessions) \cup Range1(answerStore)

\* the engines after a handler stored a new object: unreferenced ones are dropped
Allocate(ref, engine, sessions) ==
  [x \in (Live(sessions, mockGameSessions) \cup {ref}) |->
     IF x = ref THEN engine ELSE heap[x]]

\* a reference no live object has
FreshRef == CHOOSE x \in ObjIds \ DOMAIN heap : \A y \in ObjIds \ DOMAIN heap : x <= y

CreateCode(caller, room) ==
  IF AuthCode(caller) # "ok" THEN AuthCode(caller)
  ELSE IF room = "" THEN "INVALID_INPUT"
  ELSE IF getGameSessionByRoom(room)
          /\ heap[gameSessions[roomSessions[room]]].session.status # "finished"
       THEN "SESSION_EXISTS"
  ELSE "ok"

\* POST /api/game/session/create: a session under a newly generated id, with the
\* caller as first player; mockData.addGameSession also maps the room to it
CreateSession(caller, room, sid, questionsPerGame, types, speed) ==
  /\ sid \notin (DOMAIN gameSessions) \cup (DOMAIN mockGameSessions)
  /\ ObjIds \ DOMAIN heap # {}
  /\ IF CreateCode(caller, room) = "ok"
     THEN /\ gameSessions' = updateGameSession(sid, FreshRef)
          /\ heap' = Allocate(FreshRef,
                        NewEngine(room, questionsPerGame,
                                  generateGameQuestionSet(questionsPerGame, types),
                                  <<NewPlayer(caller, 1)>>, <<NewScore(caller, 1, now)>>,
                                  speed),
                        gameSessions')
          /\ roomSessions' = [x \in (DOMAIN roomSessions) \cup {room} |->
                                IF x = room THEN sid ELSE roomSessions[x]]
          /\ last' = Response("create", "ok")
     ELSE /\ UNCHANGED <<heap, gameSessions, roomSessions>>
          /\ last' = Response("create", CreateCode(caller, room))
  /\ UNCHANGED <<mockGameSessions, reqs, creating, now>>
  /\ UNCHANGED hubVars
  /\ UNCHANGED clientVars

CreateWithIdCode(caller, room) ==
  IF AuthCode(caller) # "ok" THEN AuthCode(caller)
  ELSE IF room = "" THEN "INVALID_INPUT"
  ELSE IF getGameSessionByRoom(room) THEN "SESSION_EXISTS"
  ELSE "ok"

\* POST /api/game/session/[sessionId] up to "await params", after its room check
CreateWithIdBegin(caller, room) ==
  /\ room \notin creating
  /\ creating' = IF CreateWithIdCode(caller, room) = "ok" THEN creating \cup {room}
                 ELSE creating
  /\ last' = IF CreateWithIdCode(caller, room) = "ok"
             THEN Response("await", "pending")
             ELSE Response("create_with_id", CreateWithIdCode(caller, room))
  /\ UNCHANGED <<heap, gameSessions, roomSessions, mockGameSessions, reqs, now>>
  /\ UNCHANGED hubVars
  /\ UNCHANGED clientVars

\* settings.questions_per_game || defaultGameSettings.questions_per_game
QuestionsPerGameOrDefault(n) == IF n = 0 THEN DefaultQuestionsPerGame ELSE n

\* the rest of POST /api/game/session/[sessionId]: a session without players
\* under the id of the path, stored with mockData.updateGameSession
CreateWithIdStore(room, sid, questionsPerGame, types, speed) ==
  /\ room \in creating
  /\ ObjIds \ DOMAIN heap # {}
  /\ creating' = creating \ {room}
  /\ gameSessions' = updateGameSession(sid, FreshRef)
  /\ heap' = Allocate(FreshRef,
                NewEngine(room, QuestionsPerGameOrDefault(questionsPerGame),
                          generateGameQuestionSet(QuestionsPerGameOrDefault(questionsPerGame),
                                                  types),
                          << >>, << >>, speed),
                gameSessions')
  /\ last' = Response("create_with_id", "ok")
  /\ UNCHANGED <<roomSessions, mockGameSessions, reqs, now>>
  /\ UNCHANGED hubVars
  /\ UNCHANGED clientVars

(* ----------------------------------------------------------------- time *)
\* the current time is recorded in a stamp of some session
Stamped(t) ==
  \E ref \in DOMAIN heap :
     \/ heap[ref].session.end_time = t
     \/ \E i \in 1..Len(heap[ref].scores) : heap[ref].scores[i].updated_at = t

\* new Date() moves on.  The clock shows only in the stamps it leaves, so it
\* moves on once the current time is recorded in one.
Tick ==
  /\ now < MaxTime
  /\ Stamped(now)
  /\ now' = now + 1
  /\ last' = Response("tick", "ok")
  /\ UNCHANGED <<heap, gameSessions, roomSessions, mockGameSessions, reqs, creating>>
  /\ UNCHANGED hubVars
  /\ UNCHANGED clientVars

(* ------------------------------------------------------- initial states *)
PlayersOf(list) == [i \in 1..Len(list) |-> NewPlayer(list[i], i)]

ScoresOf(list, t) == [i \in 1..Len(list) |-> NewScore(list[i], i, t)]

\* a stored session nobody started yet
WaitingEngines ==
  {NewEngine("room1", n, generateGameQuestionSet(n, types),
             PlayersOf(list), ScoresOf(list, 1), speed) :
     n \in 1..MaxRounds, types \in QuestionTypeLists,
     list \in PlayerLists, speed \in SpeedBonusInputs}

\* a stored session in round k with the status st, no answer given yet
InRound(engine, st, k) ==
  [StartedEngine(engine, 1) EXCEPT
     !.status = st,
     !.session.current_round = k,
     !.current_round = NewRound(engine.questions[k])]

RunningEngines ==
  UNION {{InRound(e, st, k) : st \in {"countdown", "question", "results"},
                              k \in 1..e.session.total_rounds} :
           e \in {w \in WaitingEngines : Len(w.players) > 0}}

\* the stores are module-level objects: empty when the server starts.  The
\* handlers are also run against a store that already holds a session, in each
\* status they branch on, with the answer route's store holding the same
\* object or nothing.
Init ==
  /\ HubIdle
  /\ ClientIdle
  /\ reqs = [r \in ReqIds |-> "idle"]
  /\ creating = {}
  /\ now = 1
  /\ last = Response("init", "ok")
  /\ \/ /\ heap = EmptyMap
        /\ gameSessions = EmptyMap
        /\ roomSessions = EmptyMap
        /\ mockGameSessions = EmptyMap
     \/ \E e \in WaitingEngines \cup RunningEngines :
          /\ heap = [x \in {1} |-> e]
          /\ gameSessions = [x \in {"s1"} |-> 1]
          /\ roomSessions = IF Len(e.players) > 0 THEN [x \in {"room1"} |-> "s1"]
                            ELSE EmptyMap
          /\ mockGameSessions \in {EmptyMap, [x \in {"s1"} |-> 1]}

(* ------------------------------------------------------------ next state *)
\* every handler and the clock; one submit-answer request is in flight at a
\* time, suspended at its awaits while the other handlers run
Next ==
  \/ \E caller \in Callers, sid \in SessionIds : StartGame(caller, sid)
  \/ \E caller \in Callers, sid \in SessionIds : NextQuestion(caller, sid)
  \/ \E caller \in Callers, sid \in SessionIds : EndGame(caller, sid)
  \/ \E r \in FirstRequest, hasToken \in BOOLEAN : SubmitBegin(r, hasToken)
  \/ \E r \in FirstRequest, valid \in BOOLEAN : SubmitVerified(r, valid)
  \/ \E r \in FirstRequest, user \in Users, sid \in SessionIds,
        qid \in QuestionIdInputs, answer \in Answers, timeToRespond \in TimesToRespond :
       SubmitBody(r, user, sid, qid, answer, NoSensorData, timeToRespond)
  \/ \E caller \in Callers, room \in Rooms \cup {""}, sid \in SessionIds,
        n \in 0..MaxRounds, types \in QuestionTypeLists, speed \in SpeedBonusInputs :
       CreateSession(caller, room, sid, n, types, speed)
  \/ \E caller \in Callers, room \in Rooms \cup {""} : CreateWithIdBegin(caller, room)
  \/ \E room \in Rooms, sid \in SessionIds, n \in 0..MaxRounds,
        types \in QuestionTypeLists, speed \in SpeedBonusInputs :
       CreateWithIdStore(room, sid, n, types, speed)
  \/ Tick

Spec == Init /\ [][Next]_vars

(* --------------------------------------------- concurrent submit requests *)
\* a started session the answer route finds under its id
ConcurrentInit ==
  /\ HubIdle
  /\ ClientIdle
  /\ reqs = [r \in ReqIds |-> "idle"]
  /\ creating = {}
  /\ now = 1
  /\ last = Response("init", "ok")
  /\ \E e \in RunningEngines :
        /\ heap = [x \in {1} |-> e]
        /\ gameSessions = [x \in {"s1"} |-> 1]
        /\ roomSessions = [x \in {"room1"} |-> "s1"]
        /\ mockGameSessions = [x \in {"s1"} |-> 1]

\* several submit-answer requests in flight at once, each suspended at its
\* awaits, while the host advances the session and time passes
ConcurrentNext ==
  \/ \E r \in ReqIds, hasToken \in BOOLEAN : SubmitBegin(r, hasToken)
  \/ \E r \in ReqIds, valid \in BOOLEAN : SubmitVerified(r, valid)
  \/ \E r \in ReqIds, user \in Users, sid \in SessionIds,
        qid \in QuestionIdInputs, answer \in Answers, timeToRespond \in TimesToRespond :
       SubmitBody(r, user, sid, qid, answer, NoSensorData, timeToRespond)
  \/ \E sid \in SessionIds : NextQuestion(HostUser, sid)
  \/ Tick

ConcurrentSpec == ConcurrentInit /\ [][ConcurrentNext]_vars

(* ------------------------------------------------- the answer evaluation *)
\* the question types of the pool: the six QuestionType values, and the tag of
\* a template added by addCustomQuestions that is none of them
EvalTypes ==
  {"multiple_choice", "true_false", "orientation_match", "voice_command",
   "gesture_recognition", "multi_modal", "custom"}

Voice(text, confidence) == [present |-> TRUE, text |-> text, confidence |-> confidence]

Gesture(type, confidence) == [present |-> TRUE, type |-> type, confidence |-> confidence]

\* request bodies: answer and response_data
EvalBodies ==
  {[answer |-> <<"A">>, data |-> NoSensorData],
   [answer |-> <<"B">>, data |-> NoSensorData],
   [answer |-> <<"true">>, data |-> NoSensorData],
   [answer |-> << >>, data |-> [NoSensorData EXCEPT !.gyroscope = Gyroscope(10, 0, 5)]],
   [answer |-> << >>, data |-> [NoSensorData EXCEPT !.gyroscope = Gyroscope(90, 45, 0)]],
   [answer |-> << >>, data |-> [NoSensorData EXCEPT !.voice = Voice(<<"Hello", "World">>, 90)]],
   [answer |-> << >>, data |-> [NoSensorData EXCEPT !.voice = Voice(<<"hello">>, 90)]],
   [answer |-> << >>, data |-> [NoSensorData EXCEPT !.gesture = Gesture("thumbs_up", 90)]],
   [answer |-> << >>, data |-> [NoSensorData EXCEPT !.gesture = Gesture("peace", 90)]]}

\* time_to_respond, in seconds
EvalTimes == {4, 6, 12}

\* a started one-round session the answer route finds under its id, its
\* question of any type of the pool, nobody having answered
EvalInit ==
  /\ HubIdle
  /\ ClientIdle
  /\ reqs = [r \in ReqIds |-> "idle"]
  /\ creating = {}
  /\ now = 1
  /\ last = Response("init", "ok")
  /\ \E type \in EvalTypes, speed \in BOOLEAN, st \in {"countdown", "question"} :
        /\ heap = [x \in {1} |->
                     InRound(NewEngine("room1", 1, generateGameQuestionSet(1, <<type>>),
                                       PlayersOf(<<"u1", "u2">>),
                                       ScoresOf(<<"u1", "u2">>, 1), speed),
                             st, 1)]
        /\ gameSessions = [x \in {"s1"} |-> 1]
        /\ roomSessions = [x \in {"room1"} |-> "s1"]
        /\ mockGameSessions = [x \in {"s1"} |-> 1]

\* the submit-answer handler on every kind of body
EvalNext ==
  \/ \E r \in FirstRequest, hasToken \in BOOLEAN : SubmitBegin(r, hasToken)
  \/ \E r \in FirstRequest, valid \in BOOLEAN : SubmitVerified(r, valid)
  \/ \E r \in FirstRequest, user \in Users, sid \in SessionIds, qid \in {1},
        body \in EvalBodies, timeToRespond \in EvalTimes :
       SubmitBody(r, user, sid, qid, body.answer, body.data, timeToRespond)

EvalSpec == EvalInit /\ [][EvalNext]_vars

(* ---------------------------------- orientation and voice evaluation *)
\* the question types evaluated from a gyroscope reading or a transcript
SensorTypes == {"orientation_match", "voice_command"}

\* response_data.gyroscope: alpha in 0..360, beta in -180..180, gamma in -90..90
GyroscopeReadings ==
  {Gyroscope(0, 0, 0), Gyroscope(0, 60, 60), Gyroscope(90, 0, 0),
   Gyroscope(0, -45, 46), Gyroscope(200, 100, 50)}

\* response_data.voice.text, as the words between its spaces
Transcripts ==
  {<<"Hello", "World">>, <<"hello", "hello">>, <<"hello">>, <<"goodbye">>,
   <<"hello", "world", "now">>}

\* request bodies that carry a reading, a transcript or neither
SensorBodies ==
  {NoSensorData}
    \cup {[NoSensorData EXCEPT !.gyroscope = g] : g \in GyroscopeReadings}
    \cup {[NoSensorData EXCEPT !.voice = Voice(text, 90)] : text \in Transcripts}

\* a started one-round session the answer route finds under its id, on an
\* orientation or a voice question, nobody having answered
SensorInit ==
  /\ HubIdle
  /\ ClientIdle
  /\ reqs = [r \in ReqIds |-> "idle"]
  /\ creating = {}
  /\ now = 1
  /\ last = Response("init", "ok")
  /\ \E type \in SensorTypes, speed \in BOOLEAN :
        /\ heap = [x \in {1} |->
                     InRound(NewEngine("room1", 1, generateGameQuestionSet(1, <<type>>),
                                       PlayersOf(<<"u1", "u2">>),
                                       ScoresOf(<<"u1", "u2">>, 1), speed),
                             "question", 1)]
        /\ gameSessions = [x \in {"s1"} |-> 1]
        /\ roomSessions = [x \in {"room1"} |-> "s1"]
        /\ mockGameSessions = [x \in {"s1"} |-> 1]

\* the submit-answer handler on every reading and transcript
SensorNext ==
  \/ \E r \in FirstRequest, hasToken \in BOOLEAN : SubmitBegin(r, hasToken)
  \/ \E r \in FirstRequest, valid \in BOOLEAN : SubmitVerified(r, valid)
  \/ \E r \in FirstRequest, user \in Users, sid \in SessionIds, qid \in {1},
        data \in SensorBodies, timeToRespond \in TimesToRespond :
       SubmitBody(r, user, sid, qid, << >>, data, timeToRespond)

SensorSpec == SensorInit /\ [][SensorNext]_vars


(* ================================================================ claims *)
\* the GameEngine objects a step keeps (a create may drop an unreferenced one)
Kept == (DOMAIN heap) \cap (DOMAIN heap')

\* the step is one of the session operations start, next, end, submit answer
SessionOperation == last'.op \in {"start", "next", "end", "submit"}

(* ------------------------------------------------------------------- C1 *)
RoundWithinTotal ==
  \A ref \in DOMAIN heap :
     heap[ref].session.current_round <= heap[ref].session.total_rounds

RoundNeverDecreases ==
  SessionOperation =>
    \A ref \in Kept :
       heap'[ref].session.current_round >= heap[ref].session.current_round

\* C1: under start, next, end and submit answer a session's current_round never
\* decreases, and it never exceeds the session's total_rounds.
C1_RoundMonotoneAndBounded == [][RoundNeverDecreases]_vars /\ []RoundWithinTotal

\* C1 witness: a next command has moved a session on to its second round
C1_Witness ==
  /\ last = Response("next", "ok")
  /\ \E ref \in DOMAIN heap :
        /\ heap[ref].session.current_round = 2
        /\ heap[ref].status = "countdown"

(* ------------------------------------------------------------------- C2 *)
\* the user ids of the responses a round holds
Responders(round) == {round.responses[i].user_id : i \in 1..Len(round.responses)}

\* whenever a submit-answer handler runs its body on a request that satisfies
\* Pre, the step satisfies Post
SubmitStep(Pre(_, _, _), Post) ==
  (last'.op = "submit" /\ reqs' # reqs) =>
    \A r \in ReqIds, user \in Users, sid \in SessionIds, qid \in QuestionIdInputs :
       (/\ reqs[r] = "json"
        /\ Pre(user, sid, qid)
        /\ \E answer \in Answers, timeToRespond \in TimesToRespond :
              SubmitBody(r, user, sid, qid, answer, NoSensorData, timeToRespond))
       => Post

AlreadyAnswered(user, sid, qid) ==
  /\ sid \in DOMAIN mockGameSessions
  /\ AnswerEngine(sid).current_round.defined
  /\ AnswerEngine(sid).current_round.question.id = qid
  /\ user \in Responders(AnswerEngine(sid).current_round)

\* C2: a submit answer by a participant who already has a response in the
\* current round, for that round's question, is rejected as a duplicate and
\* changes no score, rank or response list.
C2_SecondSubmitRejected ==
  [][SubmitStep(AlreadyAnswered, last'.code = "ALREADY_ANSWERED" /\ heap' = heap)]_vars

\* C2 witness: a duplicate was rejected while the round holds the first response
C2_Witness ==
  /\ last = Response("submit", "ALREADY_ANSWERED")
  /\ \E ref \in DOMAIN heap : Len(heap[ref].current_round.responses) > 0

(* ------------------------------------------------------------------- C3 *)
NoDuplicateResponses ==
  \A ref \in DOMAIN heap :
     \A i, j \in 1..Len(heap[ref].current_round.responses) :
        i # j => heap[ref].current_round.responses[i].user_id
                   # heap[ref].current_round.responses[j].user_id

\* the cumulative score of a user in a session, 0 without a score entry
UserScore(engine, u) ==
  IF \E i \in 1..Len(engine.scores) : engine.scores[i].user_id = u
  THEN engine.scores[CHOOSE i \in 1..Len(engine.scores) : engine.scores[i].user_id = u].score
  ELSE 0

\* a score only grows together with the user's first response of the round
ScoreGrowsOncePerRound ==
  \A ref \in Kept, u \in Users :
     UserScore(heap'[ref], u) > UserScore(heap[ref], u) =>
       /\ u \notin Responders(heap[ref].current_round)
       /\ Len(heap'[ref].current_round.responses)
            = Len(heap[ref].current_round.responses) + 1
       /\ heap'[ref].current_round.responses[Len(heap'[ref].current_round.responses)].user_id = u
       /\ heap'[ref].current_round.question = heap[ref].current_round.question

\* C3: however concurrent submit-answer requests interleave at their suspension
\* points, a round never holds two responses of one user, and a user's score
\* grows at most once per round.
C3_AtMostOneResponsePerRound == []NoDuplicateResponses /\ [][ScoreGrowsOncePerRound]_vars

\* C3 witness: one request was accepted as the round's second response while
\* another request is suspended in the handler
C3_Witness ==
  /\ last = Response("submit", "ok")
  /\ \E r \in ReqIds : reqs[r] = "json"
  /\ \E ref \in DOMAIN heap : Len(heap[ref].current_round.responses) = 2

(* ------------------------------------------------------------------- C4 *)
ParticipantOutsideQuestion(user, sid, qid) ==
  /\ qid # 0
  /\ sid \in DOMAIN mockGameSessions
  /\ \E i \in 1..Len(AnswerEngine(sid).players) : AnswerEngine(sid).players[i].id = user
  /\ AnswerEngine(sid).status # "question"

Standing(engine) ==
  <<engine.status, engine.session.current_round, engine.session.end_time,
    [i \in 1..Len(engine.scores) |->
       <<engine.scores[i].user_id, engine.scores[i].score, engine.scores[i].rank>>]>>

FinishedStays ==
  SessionOperation =>
    \A ref \in Kept :
       heap[ref].status = "finished" => Standing(heap'[ref]) = Standing(heap[ref])

\* C5: once a session is finished, start, next, end and submit answer leave its
\* status, current_round, scores, ranks and end time as they are.
C5_FinishedIsTerminal == [][FinishedStays]_vars

(* ------------------------------------------------------------------- C6 *)
EndAsSpecified ==
  \A caller \in Users, sid \in SessionIds :
     (/\ last'.op = "end"
      /\ getGameSession(sid)
      /\ EndGame(caller, sid))
     => IF Engine(sid).status = "finished"
        THEN last'.code = "INVALID_STATE" /\ heap' = heap
        ELSE last'.code = "ok" /\ heap'[gameSessions[sid]].status = "finished"

\* C6: end succeeds and finishes the session from every status but finished,
\* and is rejected with INVALID_STATE on a finished session.
C6_EndRejectedWhenFinished == [][EndAsSpecified]_vars

(* ------------------------------------------------------------------- C7 *)
\* the caller is neither the host of the room nor the player who created the session
NotHost(caller, engine) ==
  /\ caller # HostUser
  /\ Len(engine.players) > 0 => engine.players[1].id # caller

HostOnly ==
  \A caller \in Users, sid \in SessionIds :
     (/\ last'.op \in {"start", "next", "end"}
      /\ getGameSession(sid)
      /\ NotHost(caller, Engine(sid))
      /\ \/ StartGame(caller, sid)
         \/ NextQuestion(caller, sid)
         \/ EndGame(caller, sid))
     => (last'.code = "ACCESS_DENIED" /\ heap' = heap)

\* C7: start, next and end by an authenticated caller who is not the host are
\* rejected with ACCESS_DENIED and change nothing.
C7_HostOnlyCommands == [][HostOnly]_vars

(* ------------------------------------------------------------------- C8 *)
StartAsSpecified ==
  \A caller \in Users, sid \in SessionIds :
     (/\ last'.op = "start"
      /\ getGameSession(sid)
      /\ isHost(caller, Engine(sid))
      /\ StartGame(caller, sid))
     => IF /\ Engine(sid).status = "waiting"
           /\ Len(Engine(sid).players) >= 1
           /\ Len(Engine(sid).questions) >= 1
        THEN /\ last'.code = "ok"
             /\ heap'[gameSessions[sid]].status = "countdown"
             /\ heap'[gameSessions[sid]].session.current_round = 1
        ELSE /\ last'.code \in {"INVALID_STATE", "NO_PLAYERS", "NO_QUESTIONS"}
             /\ heap'[gameSessions[sid]].status = Engine(sid).status
             /\ heap'[gameSessions[sid]].session.current_round
                  = Engine(sid).session.current_round
             /\ heap'[gameSessions[sid]].players = Engine(sid).players
             /\ heap'[gameSessions[sid]].scores = Engine(sid).scores

\* C8: start moves a waiting session with at least one player and one question
\* to countdown with current_round 1; in every other case it is rejected with
\* INVALID_STATE, NO_PLAYERS or NO_QUESTIONS and status, current_round, players
\* and scores stay as they are.
C8_StartPreconditions == [][StartAsSpecified]_vars

\* C8 witness: a start was accepted and the session counts down to round 1
C8_Witness ==
  /\ last = Response("start", "ok")
  /\ \E ref \in DOMAIN heap :
        /\ heap[ref].status = "countdown"
        /\ heap[ref].session.current_round = 1

(* ------------------------------------------------------------------- C9 *)
\* the server as it starts: every store empty
InitCode ==
  /\ HubIdle
  /\ ClientIdle
  /\ reqs = [r \in ReqIds |-> "idle"]
  /\ creating = {}
  /\ now = 1
  /\ last = Response("init", "ok")
  /\ heap = EmptyMap
  /\ gameSessions = EmptyMap
  /\ roomSessions = EmptyMap
  /\ mockGameSessions = EmptyMap

\* time passes, suspended handlers resume, and the host's client timer
\* (useGameEngine: handleTimeUp calls nextQuestion) fires its next command
Fairness ==
  /\ WF_vars(Tick)
  /\ WF_vars(\E sid \in SessionIds : NextQuestion(HostUser, sid))
  /\ \A r \in ReqIds :
        /\ WF_vars(\E valid \in BOOLEAN : SubmitVerified(r, valid))
        /\ WF_vars(\E user \in Users, sid \in SessionIds, qid \in QuestionIdInputs,
                      answer \in Answers, timeToRespond \in TimesToRespond :
                     SubmitBody(r, user, sid, qid, answer, NoSensorData, timeToRespond))
  /\ WF_vars(\E room \in Rooms, sid \in SessionIds, n \in 0..MaxRounds,
                types \in QuestionTypeLists, speed \in SpeedBonusInputs :
               CreateWithIdStore(room, sid, n, types, speed))

FairSpec == InitCode /\ [][Next]_vars /\ Fairness

\* C9: a session in countdown eventually becomes active (status 'question')
\* with its round timer running.
C9_CountdownBecomesActive ==
  \A ref \in ObjIds :
     (ref \in DOMAIN heap /\ heap[ref].status = "countdown")
       ~> (/\ ref \in DOMAIN heap
           /\ heap[ref].status = "question"
           /\ heap[ref].timer.is_running)

(* ------------------------------------------------------------------ C10 *)
\* a next command reaches a session whose question is open
AdvanceWhileActive(caller, sid) ==
  /\ last'.op = "next"
  /\ getGameSession(sid)
  /\ Engine(sid).status = "question"
  /\ isHost(caller, Engine(sid))
  /\ NextQuestion(caller, sid)

AdvanceToResults ==
  \A caller \in Users, sid \in SessionIds :
     AdvanceWhileActive(caller, sid) =>
       /\ heap'[gameSessions[sid]].status = "results"
       /\ heap'[gameSessions[sid]].session.current_round = Engine(sid).session.current_round

AdvanceSkipsResults ==
  \A caller \in Users, sid \in SessionIds :
     AdvanceWhileActive(caller, sid) =>
       LET old == Engine(sid)
           new == heap'[gameSessions[sid]]
       IN IF old.session.current_round < old.session.total_rounds
          THEN /\ last'.code = "ok"
               /\ new.status = "countdown"
               /\ new.session.current_round = old.session.current_round + 1
               /\ new.current_round.defined
               /\ new.current_round.question = old.questions[old.session.current_round + 1]
               /\ new.current_round.question.id # old.current_round.question.id
               /\ new.current_round.responses = << >>
          ELSE /\ last'.code = "game_ended"
               /\ new.status = "finished"
               /\ ~new.current_round.defined

\* the request names a question other than the one of the session's current round
NotTheCurrentQuestion(user, sid, qid) ==
  /\ sid \in DOMAIN mockGameSessions
  /\ \/ ~AnswerEngine(sid).current_round.defined
     \/ AnswerEngine(sid).session.current_round \notin 1..Len(AnswerEngine(sid).questions)
     \/ qid # AnswerEngine(sid).questions[AnswerEngine(sid).session.current_round].id

\* no accepted submit answer is the step of a request that names another
\* question, and a rejected one leaves every session as it was
OldRoundSealed ==
  /\ (last'.op = "submit" /\ last'.code # "ok") => heap' = heap
  /\ (last' = Response("submit", "ok") /\ reqs' # reqs) =>
       \A r \in ReqIds, user \in Users, sid \in SessionIds, qid \in QuestionIdInputs :
          (reqs[r] = "json" /\ NotTheCurrentQuestion(user, sid, qid)) =>
            ~\E answer \in Answers, timeToRespond \in TimesToRespond :
                SubmitBody(r, user, sid, qid, answer, NoSensorData, timeToRespond)

AdvanceFromResults(caller, sid) ==
  /\ last'.op = "next"
  /\ getGameSession(sid)
  /\ Engine(sid).status = "results"
  /\ isHost(caller, Engine(sid))
  /\ NextQuestion(caller, sid)

AdvanceAsSpecified ==
  \A caller \in Users, sid \in SessionIds :
     AdvanceFromResults(caller, sid) =>
       LET old == Engine(sid)
           new == heap'[gameSessions[sid]]
       IN IF old.session.current_round = old.session.total_rounds
          THEN new.status = "finished"
          ELSE /\ new.status = "countdown"
               /\ new.session.current_round = old.session.current_round + 1
               /\ new.current_round.defined
               /\ new.current_round.question = new.questions[new.session.current_round]
               /\ new.questions = old.questions
               /\ new.current_round.responses = << >>

\* C11: a next command from results finishes the session exactly when
\* current_round equals total_rounds; otherwise it goes to countdown, adds 1 to
\* current_round and installs the question at that position of the question
\* list with an empty response list.
C11_AdvanceFromResults == [][AdvanceAsSpecified]_vars

\* C11 witness: a next command finished a session after its last round
C11_Witness ==
  /\ last = Response("next", "game_ended")
  /\ \E ref \in DOMAIN heap :
        /\ heap[ref].status = "finished"
        /\ heap[ref].session.current_round = heap[ref].session.total_rounds
        /\ heap[ref].session.total_rounds = MaxRounds
        /\ ~heap[ref].current_round.defined

(* ------------------------------------------------------------------ C12 *)
\* the handlers on the server as it starts, every session made by a create
ServerSpec == InitCode /\ [][Next]_vars

\* the user plays in a session that was created and started, and answers the
\* question of its round for the first time
ParticipantOfStartedSession(user, sid, qid) ==
  /\ getGameSession(sid)
  /\ Engine(sid).status \in {"countdown", "question"}
  /\ \E i \in 1..Len(Engine(sid).players) : Engine(sid).players[i].id = user
  /\ Engine(sid).current_round.defined
  /\ Engine(sid).current_round.question.id = qid
  /\ user \notin Responders(Engine(sid).current_round)

\* C12: a participant's answer to the current question of a session that was
\* created and started through the session routes is accepted (and then scored
\* and ranked, after which the session of one round finishes).
C12_EndToEnd == [][SubmitStep(ParticipantOfStartedSession, last'.code = "ok")]_vars

(* ------------------------------------------------------------------ C13 *)
\* the responses recorded in the current rounds, each with its session
Recorded ==
  UNION {{[engine |-> heap[ref], response |-> heap[ref].current_round.responses[i]] :
            i \in 1..Len(heap[ref].current_round.responses)} :
         ref \in DOMAIN heap}

\* the response was given in the first half of the time limit
InFirstHalf(x) ==
  2 * x.response.time_to_respond < x.engine.current_round.question.time_limit

\* the response was given in the third quarter of the time limit
InThirdQuarter(x) ==
  /\ ~InFirstHalf(x)
  /\ 4 * x.response.time_to_respond < 3 * x.engine.current_round.question.time_limit

\* the points of a response, as a multiple of a quarter point: none when
\* incorrect; question.points when correct, plus halfBonus in the first half
\* and quarterBonus in the third quarter of the time limit when the speed bonus
\* is on
PointsAre(x, halfBonus, quarterBonus) ==
  LET points == x.engine.current_round.question.points
      bonus == x.engine.settings.speed_bonus_enabled
  IN 4 * x.response.points_awarded =
       IF ~x.response.is_correct THEN 0
       ELSE IF bonus /\ InFirstHalf(x) THEN 4 * points + halfBonus
       ELSE IF bonus /\ InThirdQuarter(x) THEN 4 * points + quarterBonus
       ELSE 4 * points

TiesByUpdatedAt(scores) ==
  \A i, j \in 1..Len(scores) :
     (scores[i].score = scores[j].score /\ scores[i].updated_at < scores[j].updated_at)
       => scores[i].rank < scores[j].rank

RankedAfterResponse ==
  (last'.op = "submit" /\ last'.code = "ok") =>
    \A ref \in Kept : heap'[ref] # heap[ref] => TiesByUpdatedAt(heap'[ref].scores)

WellRanked(scores) ==
  /\ \A k \in 1..Len(scores) : \E i \in 1..Len(scores) : scores[i].rank = k
  /\ \A i \in 1..Len(scores) : scores[i].rank \in 1..Len(scores)
  /\ \A i, j \in 1..Len(scores) :
        scores[i].score > scores[j].score => scores[i].rank < scores[j].rank

\* the step recorded a response or finished a session
AcceptedOrFinished(ref) ==
  /\ heap'[ref] # heap[ref]
  /\ \/ last'.op = "submit" /\ last'.code = "ok"
     \/ last'.op \in {"next", "end"} /\ heap'[ref].status = "finished"

RanksAfterResponseAndFinish ==
  \A ref \in Kept : AcceptedOrFinished(ref) => WellRanked(heap'[ref].scores)

\* C15: after every accepted response and after a session finishes, the ranks
\* of its n score entries are exactly 1..n and an entry with a higher score
\* never has a worse rank than one with a lower score.
C15_RanksArePermutation == [][RanksAfterResponseAndFinish]_vars

\* an accepted response moved its participant past an earlier entry of the
\* leaderboard
C15_Witness ==
  /\ last = Response("submit", "ok")
  /\ \E ref \in DOMAIN heap :
        /\ Len(heap[ref].scores) = 2
        /\ heap[ref].scores[1].user_id = "u2"
        /\ heap[ref].scores[1].score > heap[ref].scores[2].score
        /\ heap[ref].scores[1].rank = 1
        /\ heap[ref].scores[2].rank = 2

(* ------------------------------------------------------------------ C16 *)
\* the total_score of a player of a session, 0 for other users
TotalScore(engine, u) ==
  IF FindPlayer(engine.players, u) # 0
  THEN engine.players[FindPlayer(engine.players, u)].total_score
  ELSE 0

ScoresNeverDecrease ==
  last'.op \in {"submit", "next", "end"} =>
    \A ref \in Kept, u \in Users :
       /\ UserScore(heap'[ref], u) >= UserScore(heap[ref], u)
       /\ TotalScore(heap'[ref], u) >= TotalScore(heap[ref], u)

\* C16: from its start on, no submit answer, advance or end lowers the
\* cumulative score of any participant of a session.
C16_ScoresNeverDecrease == [][ScoresNeverDecrease]_vars

\* a participant's points were carried through an end command
C16_Witness ==
  /\ last = Response("end", "ok")
  /\ \E ref \in DOMAIN heap, u \in Users :
        /\ heap[ref].status = "finished"
        /\ UserScore(heap[ref], u) > 0
        /\ TotalScore(heap[ref], u) > 0

(* ------------------------------------------------------------------ C17 *)
\* every accuracy is a percentage between 0 and 100
AccuracyInRange ==
  \A ref \in DOMAIN heap : \A i \in 1..Len(heap[ref].scores) :
     /\ 0 <= heap[ref].scores[i].accuracy.num
     /\ heap[ref].scores[i].accuracy.num <= heap[ref].scores[i].accuracy.den

\* after an accepted response in round 1 the accuracy of every participant is
\* the number of their correct responses, over the one round played
AccuracyRecomputed ==
  (last'.op = "submit" /\ last'.code = "ok") =>
    \A ref \in Kept :
       (heap'[ref] # heap[ref] /\ heap'[ref].session.current_round = 1) =>
         \A i \in 1..Len(heap'[ref].scores) :
            heap'[ref].scores[i].accuracy.num
              = CorrectResponses(heap'[ref].current_round, heap'[ref].scores[i].user_id)
                  * heap'[ref].scores[i].accuracy.den

SupportedTypes ==
  {"multiple_choice", "true_false", "orientation_match", "voice_command",
   "gesture_recognition", "multi_modal"}

\* a submission by a participant without a response, for the current question
\* of an open round, the question being of a type without a case
UnsupportedSubmission(user, sid, qid) ==
  /\ sid \in DOMAIN mockGameSessions
  /\ FindPlayer(AnswerEngine(sid).players, user) # 0
  /\ AnswerEngine(sid).status \in {"question", "countdown"}
  /\ AnswerEngine(sid).current_round.defined
  /\ AnswerEngine(sid).current_round.question.id = qid
  /\ AnswerEngine(sid).current_round.question.type \notin SupportedTypes
  /\ user \notin Responders(AnswerEngine(sid).current_round)

\* the codes the other participants of the session get for a submission for
\* the question qid from now on
CodesOfOthers(user, sid, qid) ==
  {SubmitCode(other, sid, qid, body.answer, body.data) :
     other \in {p \in Users : p # user /\ FindPlayer(AnswerEngine(sid).players, p) # 0},
     body \in EvalBodies}

\* whenever the handler runs its body on an UnsupportedSubmission, the request
\* is rejected as unsupported, nothing changes, and the other participants'
\* submissions for the round get one of the codes in others from then on
UnsupportedStep(others) ==
  (last'.op = "submit" /\ reqs' # reqs) =>
    \A r \in ReqIds, user \in Users, sid \in SessionIds, qid \in QuestionIdInputs :
       (/\ reqs[r] = "json"
        /\ UnsupportedSubmission(user, sid, qid)
        /\ \E body \in EvalBodies, timeToRespond \in EvalTimes :
              SubmitBody(r, user, sid, qid, body.answer, body.data, timeToRespond))
       => /\ last'.code = "UNSUPPORTED_QUESTION_TYPE"
          /\ heap' = heap
          /\ CodesOfOthers(user, sid, qid)' # {}
          /\ CodesOfOthers(user, sid, qid)' \subseteq others

StaleSubmission(user, sid, qid) ==
  /\ sid \in DOMAIN mockGameSessions
  /\ FindPlayer(AnswerEngine(sid).players, user) # 0
  /\ AnswerEngine(sid).status \in {"question", "countdown"}
  /\ AnswerEngine(sid).current_round.defined
  /\ qid # 0
  /\ qid # AnswerEngine(sid).current_round.question.id

\* C19: a submit answer by a participant, while the session takes answers,
\* whose question_id is not the id of the current round's question is rejected
\* as a stale question (code INVALID_QUESTION) and leaves responses and scores
\* unchanged; so is a submission for round k that arrives after the session
\* has advanced to round k + 1.
C19_StaleQuestionRejected ==
  [][SubmitStep(StaleSubmission, last'.code = "INVALID_QUESTION" /\ heap' = heap)]_vars

\* a submission for an earlier round was rejected in round 2
C19_Witness ==
  /\ last = Response("submit", "INVALID_QUESTION")
  /\ \E sid \in DOMAIN mockGameSessions :
        /\ AnswerEngine(sid).session.current_round = 2
        /\ AnswerEngine(sid).current_round.defined
        /\ AnswerEngine(sid).current_round.question.id = 2
        /\ AnswerEngine(sid).status \in {"question", "countdown"}

(* ------------------------------------------------------------------ C20 *)
\* response_data brings no payload for the modality a question of this type
\* expects
WithoutExpectedPayload(type, data) ==
  \/ type = "orientation_match" /\ ~data.gyroscope.present
  \/ type = "voice_command" /\ ~data.voice.present
  \/ type = "gesture_recognition" /\ ~data.gesture.present
  \/ type = "multi_modal" /\ data = NoSensorData

\* a submission the handler evaluates: by a participant without a response,
\* for the current question, while the session takes answers
Evaluated(user, sid, qid) ==
  /\ sid \in DOMAIN mockGameSessions
  /\ FindPlayer(AnswerEngine(sid).players, user) # 0
  /\ AnswerEngine(sid).status \in {"question", "countdown"}
  /\ AnswerEngine(sid).current_round.defined
  /\ AnswerEngine(sid).current_round.question.id = qid
  /\ user \notin Responders(AnswerEngine(sid).current_round)

\* the response of the user is the latest of the round and is scored zero
RecordedAsZero(round, user) ==
  /\ round.responses # << >>
  /\ round.responses[Len(round.responses)].user_id = user
  /\ ~round.responses[Len(round.responses)].is_correct
  /\ round.responses[Len(round.responses)].accuracy_score.num = 0
  /\ round.responses[Len(round.responses)].points_awarded = 0

MissingPayloadStep ==
  (last'.op = "submit" /\ reqs' # reqs) =>
    \A r \in ReqIds, user \in Users, sid \in SessionIds, qid \in QuestionIdInputs :
       (/\ reqs[r] = "json"
        /\ Evaluated(user, sid, qid)
        /\ \E body \in EvalBodies, timeToRespond \in EvalTimes :
             /\ WithoutExpectedPayload(AnswerEngine(sid).current_round.question.type,
                                       body.data)
             /\ SubmitBody(r, user, sid, qid, body.answer, body.data, timeToRespond))
       => /\ last'.code = "ok"
          /\ RecordedAsZero(heap'[mockGameSessions[sid]].current_round, user)

SpokenConstituent == [type |-> "voice_command", target |-> <<"yes">>]

GestureConstituent == [type |-> "gesture_recognition", target |-> <<"thumbs_up">>]

\* the accuracy the evaluator of one modality gives the payload
ConstituentAccuracy(question, c, data) ==
  Evaluate([question EXCEPT !.type = c.type, !.correct_answer = c.target],
           << >>, data).accuracy

\* the average, with equal weights, of the two constituents' accuracies
CombinedAccuracy(question, data) ==
  LET v == ConstituentAccuracy(question, SpokenConstituent, data)
      g == ConstituentAccuracy(question, GestureConstituent, data)
  IN [num |-> v.num * g.den + g.num * v.den, den |-> 2 * v.den * g.den]

RecordedWith(type) ==
  {x \in Recorded :
     /\ x.engine.current_round.question.type = type
     /\ ~WithoutExpectedPayload(type, x.response.response_data)}

\* |target.alpha - alpha| + |target.beta - beta| + |target.gamma - gamma|
SummedDifference(x) ==
  Abs(x.engine.current_round.question.target_data.alpha
        - x.response.response_data.gyroscope.alpha)
  + Abs(x.engine.current_round.question.target_data.beta
        - x.response.response_data.gyroscope.beta)
  + Abs(x.engine.current_round.question.target_data.gamma
        - x.response.response_data.gyroscope.gamma)

\* C22: the response to an orientation-match question has the accuracy
\* max(0, 100 - (summed per-axis difference) / 3) and is correct exactly when
\* the accuracy is at least 70, that is, when the summed difference is at
\* most 90; for the target (0,0,0) the reading (0,0,0) is correct with accuracy
\* 100 and the reading (0,60,60) is incorrect with accuracy 60.
C22_OrientationAccuracy ==
  \A x \in RecordedWith("orientation_match") :
     /\ 3 * x.response.accuracy_score.num
          = x.response.accuracy_score.den * Max(0, 300 - SummedDifference(x))
     /\ x.response.is_correct
          <=> (x.response.accuracy_score.num >= 70 * x.response.accuracy_score.den)
     /\ x.response.is_correct <=> (SummedDifference(x) <= 90)
     /\ x.response.response_data.gyroscope = Gyroscope(0, 0, 0) =>
          /\ x.response.is_correct
          /\ x.response.accuracy_score.num = 100 * x.response.accuracy_score.den
     /\ x.response.response_data.gyroscope = Gyroscope(0, 60, 60) =>
          /\ ~x.response.is_correct
          /\ x.response.accuracy_score.num = 60 * x.response.accuracy_score.den

\* readings with the summed differences 90 and 91 were recorded, the first as
\* correct with accuracy 70, the second as incorrect
C22_Witness ==
  /\ \E x \in RecordedWith("orientation_match") :
        /\ SummedDifference(x) = 90
        /\ x.response.is_correct
        /\ x.response.accuracy_score.num = 70 * x.response.accuracy_score.den
  /\ \E x \in RecordedWith("orientation_match") :
        /\ SummedDifference(x) = 91
        /\ ~x.response.is_correct

(* ------------------------------------------------------------------ C23 *)
\* the tokens the lower-cased target phrase and transcript share
SharedTokens(x) ==
  Range(toLowerCase(x.response.response_data.voice.text))
    \cap Range(toLowerCase(x.engine.current_round.question.correct_answer))

\* max(number of target tokens, number of transcript tokens)
LongerText(x) ==
  Max(Len(x.engine.current_round.question.correct_answer),
      Len(x.response.response_data.voice.text))

MapSet(m, k, v) == [x \in DOMAIN m \cup {k} |-> IF x = k THEN v ELSE m[x]]
MapDelete(m, k) == [x \in DOMAIN m \ {k} |-> m[x]]

\* the goroutines that are inside broadcastToRoom's loop over a room
Iterating(room) == {g \in Goroutines : bcast[g].active /\ bcast[g].room = room}

\* nothing in the service holds a lock: a goroutine that writes a room's map
\* while another one ranges over it is a data race, which the Go runtime
\* either lets pass or ends with a fatal error
Racing(g, room) == Iterating(room) \ {g} # {}
Fatal(reason) ==
  /\ panic' = reason
  /\ UNCHANGED <<clients, rooms, send, written, reader, writer, hub, bcast, published,
                 roomState, seq, ended>>

\* the entries the range loop of broadcastToRoom still produces: an entry
\* removed before it is reached is not produced
Remaining(g) ==
  IF bcast[g].room \in DOMAIN rooms THEN bcast[g].todo \cap rooms[bcast[g].room] ELSE {}

\* entering broadcastToRoom: it returns at once when the room has no entry
broadcastToRoom(roomID, message, rms) ==
  IF roomID \notin DOMAIN rms THEN NoBroadcast
  ELSE [active |-> TRUE, room |-> roomID, msg |-> message, todo |-> rms[roomID],
        dropping |-> "none"]

\* updateRoomStateInRedis: the participants of the room under "room_state:<id>"
updateRoomStateInRedis(roomID, rms) ==
  IF roomID \notin DOMAIN rms THEN roomState
  ELSE MapSet(roomState, roomID, {UserOf(c) : c \in rms[roomID]})

\* handleWebSocket: the connection is upgraded, the client is created and the
\* handler blocks on the register channel
handleWebSocket(c) ==
  /\ panic = "none"
  /\ reader[c] = "none"
  /\ reader' = [reader EXCEPT ![c] = "registering"]
  /\ send' = [send EXCEPT ![c] = NoChannel]
  /\ UNCHANGED <<clients, rooms, written, writer, hub, bcast, published, roomState,
                 panic, seq, ended>>
  /\ UNCHANGED serverVars
  /\ UNCHANGED clientVars

\* Hub.run, case register: the client is added to the registry and to its
\* room, the handler goes on to start both pumps, and the hub enters
\* broadcastToRoom with user_joined.  An entry created while another goroutine
\* ranges over the same map is produced by that loop or skipped.
Register(c) ==
  /\ panic = "none"
  /\ hub = HubSelect
  /\ reader[c] = "registering"
  /\ LET room == RoomOf(c)
         fresh == room \notin DOMAIN rooms
         members == IF fresh THEN {c} ELSE rooms[room] \cup {c}
         msg == Message("user_joined", UserOf(c), room, seq + 1)
     IN \/ /\ ~fresh
           /\ Racing(HubGoroutine, room)
           /\ Fatal("concurrent map iteration and map write")
        \/ \E produced \in SUBSET (IF fresh THEN {} ELSE Iterating(room)) :
             /\ clients' = clients \cup {c}
             /\ rooms' = MapSet(rooms, room, members)
             /\ reader' = [reader EXCEPT ![c] = "reading"]
             /\ writer' = [writer EXCEPT ![c] = "running"]
             /\ bcast' = [g \in Goroutines |->
                            IF g = HubGoroutine THEN broadcastToRoom(room, msg, rooms')
                            ELSE IF g \in produced
                                   THEN [bcast[g] EXCEPT !.todo = @ \cup {c}]
                                   ELSE bcast[g]]
             /\ hub' = [pc |-> "register", client |-> c]
             /\ seq' = seq + 1
             /\ UNCHANGED <<send, written, published, roomState, panic, ended>>
  /\ UNCHANGED serverVars
  /\ UNCHANGED clientVars

\* Hub.run, case unregister, up to close(client.send): a client that is no
\* longer in the registry is ignored
Unregister(c) ==
  /\ panic = "none"
  /\ hub = HubSelect
  /\ reader[c] = "unregistering"
  /\ IF c \notin clients
       THEN /\ reader' = [reader EXCEPT ![c] = "done"]
            /\ UNCHANGED <<clients, send, hub, panic>>
       ELSE IF send[c].closed
         THEN /\ panic' = "close of closed channel"
              /\ UNCHANGED <<clients, send, hub, reader>>
         ELSE /\ reader' = [reader EXCEPT ![c] = "done"]
              /\ clients' = clients \ {c}
              /\ send' = [send EXCEPT ![c].closed = TRUE]
              /\ hub' = [pc |-> "unregister", client |-> c]
              /\ UNCHANGED panic
  /\ UNCHANGED <<rooms, written, writer, bcast, published, roomState, seq, ended>>
  /\ UNCHANGED serverVars
  /\ UNCHANGED clientVars

\* Hub.run, case unregister, from "Remove from room": the client leaves its
\* room; an empty room loses its entry, another one is told user_left
UnregisterRoom ==
  /\ panic = "none"
  /\ hub.pc = "unregister"
  /\ LET c == hub.client
         room == RoomOf(c)
         rest == rooms[room] \ {c}
         msg == Message("user_left", UserOf(c), room, seq + 1)
     IN IF room \notin DOMAIN rooms
          THEN /\ hub' = HubSelect
               /\ UNCHANGED <<rooms, bcast, roomState, seq, panic>>
          ELSE \/ /\ Racing(HubGoroutine, room)
                  /\ Fatal("concurrent map iteration and map write")
                  /\ UNCHANGED <<hub, rooms, bcast, roomState, seq>>
               \/ /\ rest = {}
                  /\ rooms' = MapDelete(rooms, room)
                  /\ hub' = HubSelect
                  /\ UNCHANGED <<bcast, roomState, seq, panic>>
               \/ /\ rest # {}
                  /\ rooms' = MapSet(rooms, room, rest)
                  /\ bcast' = [bcast EXCEPT ![HubGoroutine] = broadcastToRoom(room, msg, rooms')]
                  /\ hub' = [pc |-> "left", client |-> c]
                  /\ seq' = seq + 1
                  /\ UNCHANGED <<roomState, panic>>
  /\ UNCHANGED <<clients, send, written, reader, writer, published, ended>>
  /\ UNCHANGED serverVars
  /\ UNCHANGED clientVars

\* readPump reads a message of one of the three handled types, stamps it with
\* the client's user and room, and its handler enters broadcastToRoom
MessageTypes == {"chat_message"}
ReadMessage(c, type) ==
  /\ panic = "none"
  /\ reader[c] = "reading"
  /\ ~bcast[c].active
  /\ seq < MaxMessages
  /\ LET msg == Message(type, UserOf(c), RoomOf(c), seq + 1)
     IN /\ bcast' = [bcast EXCEPT ![c] = broadcastToRoom(RoomOf(c), msg, rooms)]
        /\ ended' = IF RoomOf(c) \in DOMAIN rooms THEN ended
                    ELSE MapSet(ended, seq + 1, seq + 1)
  /\ seq' = seq + 1
  /\ UNCHANGED <<clients, rooms, send, written, reader, writer, hub, published,
                 roomState, panic>>
  /\ UNCHANGED serverVars
  /\ UNCHANGED clientVars

\* a loop that passes over a client whose channel is full and keeps it
BroadcastSendKeeping(g) ==
  /\ panic = "none"
  /\ bcast[g].active
  /\ bcast[g].dropping = "none"
  /\ \E client \in Remaining(g) :
       /\ send' = IF Len(send[client].buf) < MaxQueue /\ ~send[client].closed
                    THEN [send EXCEPT ![client].buf = Append(@, bcast[g].msg)]
                    ELSE send
       /\ bcast' = [bcast EXCEPT ![g].todo = @ \ {client}]
  /\ UNCHANGED <<clients, rooms, written, reader, writer, hub, published, roomState,
                 panic, seq, ended>>
  /\ UNCHANGED serverVars
  /\ UNCHANGED clientVars

\* one turn of broadcastToRoom's loop, up to close(client.send): the message
\* goes into the client's channel when there is room, otherwise the channel is
\* closed; sending on a closed channel panics
BroadcastSend(g) ==
  /\ panic = "none"
  /\ bcast[g].active
  /\ bcast[g].dropping = "none"
  /\ \E client \in Remaining(g) :
       IF send[client].closed
         THEN /\ panic' = "send on closed channel"
              /\ UNCHANGED <<send, bcast>>
         ELSE IF Len(send[client].buf) < MaxQueue
           THEN /\ send' = [send EXCEPT ![client].buf = Append(@, bcast[g].msg)]
                /\ bcast' = [bcast EXCEPT ![g].todo = @ \ {client}]
                /\ UNCHANGED panic
           ELSE /\ send' = [send EXCEPT ![client].closed = TRUE]
                /\ bcast' = [bcast EXCEPT ![g].dropping = client]
                /\ UNCHANGED panic
  /\ UNCHANGED <<clients, rooms, written, reader, writer, hub, published, roomState,
                 seq, ended>>
  /\ UNCHANGED serverVars
  /\ UNCHANGED clientVars

\* the rest of the default branch: the client whose channel was closed is
\* deleted from the registry and from the room's map
BroadcastDrop(g) ==
  /\ panic = "none"
  /\ bcast[g].active
  /\ bcast[g].dropping # "none"
  /\ LET client == bcast[g].dropping
         room == bcast[g].room
     IN \/ /\ Racing(g, room)
           /\ Fatal("concurrent map writes")
        \/ /\ clients' = clients \ {client}
           /\ rooms' = IF room \in DOMAIN rooms
                         THEN MapSet(rooms, room, rooms[room] \ {client})
                         ELSE rooms
           /\ bcast' = [bcast EXCEPT ![g].todo = @ \ {client}, ![g].dropping = "none"]
           /\ UNCHANGED <<send, written, reader, writer, hub, published, roomState,
                          panic, seq, ended>>
  /\ UNCHANGED serverVars
  /\ UNCHANGED clientVars

\* the end of broadcastToRoom: the message is published on "room:<id>"; the
\* hub then writes the room's state to Redis and returns to its select
BroadcastReturn(g) ==
  /\ panic = "none"
  /\ bcast[g].active
  /\ bcast[g].dropping = "none"
  /\ Remaining(g) = {}
  /\ published' = published \cup {bcast[g].msg}
  /\ ended' = MapSet(ended, bcast[g].msg.n, seq)
  /\ bcast' = [bcast EXCEPT ![g] = NoBroadcast]
  /\ IF g = HubGoroutine
       THEN /\ roomState' = updateRoomStateInRedis(bcast[g].room, rooms)
            /\ hub' = HubSelect
       ELSE UNCHANGED <<roomState, hub>>
  /\ UNCHANGED <<clients, rooms, send, written, reader, writer, panic, seq>>
  /\ UNCHANGED serverVars
  /\ UNCHANGED clientVars

\* writePump: a message is taken from the channel and written to the socket
\* together with the ones queued behind it; when the channel is closed and
\* empty the pump writes a close message and closes the connection
writePump(c) ==
  /\ panic = "none"
  /\ writer[c] = "running"
  /\ \/ /\ send[c].buf # << >>
        /\ written' = [written EXCEPT ![c] = @ \o send[c].buf]
        /\ send' = [send EXCEPT ![c].buf = << >>]
        /\ UNCHANGED writer
     \/ /\ send[c].buf = << >>
        /\ send[c].closed
        /\ writer' = [writer EXCEPT ![c] = "done"]
        /\ UNCHANGED <<written, send>>
  /\ UNCHANGED <<clients, rooms, reader, hub, bcast, published, roomState, panic,
                 seq, ended>>
  /\ UNCHANGED serverVars
  /\ UNCHANGED clientVars

\* readPump: ReadMessage fails (the peer left, or the connection was closed),
\* the loop breaks and the deferred function blocks on the unregister channel
ReadError(c) ==
  /\ panic = "none"
  /\ reader[c] = "reading"
  /\ ~bcast[c].active
  /\ reader' = [reader EXCEPT ![c] = "unregistering"]
  /\ UNCHANGED <<clients, rooms, send, written, writer, hub, bcast, published,
                 roomState, panic, seq, ended>>
  /\ UNCHANGED serverVars
  /\ UNCHANGED clientVars

\* another instance of the service goes through the last line of its
\* broadcastToRoom: its message is on the channel of the room
RemoteMessage == Message("chat_message", "remote", "room1", 0)
RemotePublish ==
  /\ panic = "none"
  /\ RemoteMessage \notin published
  /\ published' = published \cup {RemoteMessage}
  /\ ended' = MapSet(ended, RemoteMessage.n, seq)
  /\ UNCHANGED <<clients, rooms, send, written, reader, writer, hub, bcast, roomState,
                 panic, seq>>
  /\ UNCHANGED serverVars
  /\ UNCHANGED clientVars

\* the service after main, beside a web server that holds a started session
\* of the room, with a score entry for each of the two users
HubInit ==
  /\ HubIdle
  /\ ClientIdle
  /\ reqs = [r \in ReqIds |-> "idle"]
  /\ creating = {}
  /\ now = 1
  /\ last = Response("init", "ok")
  /\ heap = [x \in {1} |->
               InRound(NewEngine("room1", 1, generateGameQuestionSet(1, <<"multiple_choice">>),
                                 PlayersOf(<<"u1", "u2">>),
                                 ScoresOf(<<"u1", "u2">>, 1), FALSE),
                       "question", 1)]
  /\ gameSessions = [x \in {"s1"} |-> 1]
  /\ roomSessions = [x \in {"room1"} |-> "s1"]
  /\ mockGameSessions = [x \in {"s1"} |-> 1]

HubNext ==
  \/ \E c \in Connections : handleWebSocket(c)
  \/ \E c \in Connections : Register(c)
  \/ \E c \in Connections : Unregister(c)
  \/ UnregisterRoom
  \/ \E c \in Connections, type \in MessageTypes : ReadMessage(c, type)
  \/ \E g \in Goroutines : BroadcastSend(g)
  \/ \E g \in Goroutines : BroadcastDrop(g)
  \/ \E g \in Goroutines : BroadcastReturn(g)
  \/ \E c \in Connections : writePump(c)
  \/ \E c \in Connections : ReadError(c)

HubSpec == HubInit /\ [][HubNext]_vars

\* the service beside another instance that serves the same room
BridgeNext ==
  \/ HubNext
  \/ RemotePublish

BridgeSpec == HubInit /\ [][BridgeNext]_vars

HubTypeOK ==
  /\ clients \subseteq Connections
  /\ DOMAIN rooms \subseteq Rooms
  /\ \A c \in Connections : Len(send[c].buf) <= MaxQueue

(* ------------------------------------------------------------ claim C24 *)
\* the message is in the client's channel or was written to its socket
HasMessage(x, m) ==
  \/ \E i \in 1..Len(send[x].buf) : send[x].buf[i] = m
  \/ \E i \in 1..Len(written[x]) : written[x][i] = m

\* an open channel that holds as many messages as it can
FullQueue(x) == ~send[x].closed /\ Len(send[x].buf) = MaxQueue

\* the step is a turn of the loop of g's broadcastToRoom on the client x
Handled(g, x) ==
  /\ bcast[g].active
  /\ bcast[g].dropping = "none"
  /\ bcast'[g].active
  /\ panic' = "none"
  /\ \/ bcast'[g].dropping = x
     \/ bcast'[g].dropping = "none" /\ x \in bcast[g].todo /\ x \notin bcast'[g].todo

\* the client's user_joined was created after the message
JoinedAfter(x, m) ==
  \E j \in published \cup {bcast[HubGoroutine].msg} :
     j.type = "user_joined" /\ j.user = UserOf(x) /\ j.n > m.n

\* every step of a room broadcast: a client with room in its channel gets the
\* message appended, a client whose channel is full has it closed and is then
\* deleted from the registry and from the room; the loop always has a next
\* step; and when it returns every client of the room that was there when the
\* message was created has the message
BroadcastStep(g) ==
  /\ \A x \in Connections :
       Handled(g, x) =>
         IF FullQueue(x)
           THEN send'[x] = [send[x] EXCEPT !.closed = TRUE] /\ bcast'[g].dropping = x
           ELSE send'[x] = [send[x] EXCEPT !.buf = Append(@, bcast[g].msg)]
  /\ (bcast[g].dropping # "none" /\ bcast'[g].dropping = "none") =>
        /\ bcast[g].dropping \notin clients'
        /\ bcast[g].room \in DOMAIN rooms' => bcast[g].dropping \notin rooms'[bcast[g].room]
  /\ (bcast[g].active /\ panic = "none") =>
        ENABLED (BroadcastSend(g) \/ BroadcastDrop(g) \/ BroadcastReturn(g))
  /\ \A m \in {bcast[g].msg}, room \in {bcast[g].room} :
       (bcast[g].active /\ ~bcast'[g].active /\ room \in DOMAIN rooms') =>
          \A x \in rooms'[room] : HasMessage(x, m)' \/ JoinedAfter(x, m)'

\* C24: when a room broadcast meets a connection whose outbound queue is full,
\* that connection is dropped and removed from the room and from the client
\* registry, the broadcast does not block, and every other connection of the
\* room has the message enqueued.
C24_FullQueueDropped == [][\A g \in Goroutines : BroadcastStep(g)]_vars

\* a broadcast has dropped a connection whose queue was full, and the other
\* connection of the room has the message
C24_Witness ==
  \E g \in Goroutines, x \in Connections, y \in Connections :
     /\ x # y
     /\ bcast[g].active
     /\ bcast[g].dropping = "none"
     /\ bcast[g].room \in DOMAIN rooms
     /\ x \notin bcast[g].todo
     /\ send[x].closed
     /\ Len(send[x].buf) = MaxQueue
     /\ reader[x] = "reading"
     /\ x \notin clients
     /\ x \notin rooms[bcast[g].room]
     /\ ~HasMessage(x, bcast[g].msg)
     /\ HasMessage(y, bcast[g].msg)
     /\ y \in rooms[bcast[g].room]

(* ------------------------------------------------------------ claim C25 *)
\* a step of the goroutine that runs Hub.run
HubRunStep ==
  \/ \E c \in Connections : Register(c)
  \/ \E c \in Connections : Unregister(c)
  \/ UnregisterRoom
  \/ BroadcastSend(HubGoroutine)
  \/ BroadcastDrop(HubGoroutine)
  \/ BroadcastReturn(HubGoroutine)

\* C25: the room-to-connections map and the client registry are mutated only
\* by the hub's own event loop; no connection's read loop adds to them,
\* removes from them or modifies them while iterating.
C25_OnlyHubMutatesRegistry ==
  [][(clients' # clients \/ rooms' # rooms) => HubRunStep]_vars

(* ------------------------------------------------------------ claim C26 *)
\* the messages the service sends on its own, and the ones it relays
PresenceTypes == {"user_joined", "user_left"}
RelayedTypes == {"sensor_data", "game_action", "chat_message"}

\* the client was sent something that is neither presence nor a relayed
\* message of a participant
HasSnapshot(x) ==
  \/ \E i \in 1..Len(send[x].buf) : send[x].buf[i].type \notin PresenceTypes \cup RelayedTypes
  \/ \E i \in 1..Len(written[x]) : written[x][i].type \notin PresenceTypes \cup RelayedTypes

\* the hub has handled a registration: it returns to its select
Registered(c) == hub.pc = "register" /\ hub.client = c /\ hub'.pc = "select"

\* C26: when a connection registers, its joining is announced to its room and
\* the new connection is at once sent a full snapshot of the current state of
\* the session.
C26_RegisterSendsSnapshot ==
  [][\A c \in Connections, joined \in {bcast[HubGoroutine].msg} :
       Registered(c) =>
         /\ joined = Message("user_joined", UserOf(c), RoomOf(c), joined.n)
         /\ joined \in published'
         /\ \A x \in rooms'[RoomOf(c)] : HasMessage(x, joined)' \/ JoinedAfter(x, joined)'
         /\ c \in clients' => HasSnapshot(c)']_vars

(* ------------------------------------------------------------ claim C27 *)
\* no operation of the hub is under way: Hub.run waits in its select and no
\* goroutine is inside broadcastToRoom
Quiescent == hub = HubSelect /\ \A g \in Goroutines : ~bcast[g].active

\* C27: after any sequence of register, unregister and room broadcasts, the
\* dropping of slow connections included, no room entry exists whose set of
\* connections is empty.
C27_NoEmptyRoom ==
  (panic = "none" /\ Quiescent) => \A room \in DOMAIN rooms : rooms[room] # {}

(* ------------------------------------------------------------ claim C28 *)
\* the step takes the client out of a room in which others stay
Leaves(x, room) ==
  /\ room \in DOMAIN rooms
  /\ x \in rooms[room]
  /\ room \in DOMAIN rooms'
  /\ x \notin rooms'[room]
  /\ rooms'[room] # {}

\* the hub is inside broadcastToRoom with user_left of the client's user, for
\* the clients of the room
LeftAnnounced(x, room) ==
  /\ bcast[HubGoroutine].active
  /\ bcast[HubGoroutine].msg.type = "user_left"
  /\ bcast[HubGoroutine].msg.user = UserOf(x)
  /\ bcast[HubGoroutine].room = room
  /\ rooms[room] \subseteq bcast[HubGoroutine].todo

\* the user has a score entry in a session
HasScore(u, ref) == \E i \in 1..Len(heap[ref].scores) : heap[ref].scores[i].user_id = u

\* C28: whenever a connection leaves a room in which other connections stay,
\* by unregistering or by being dropped as a slow consumer, the remaining
\* connections are sent a left-presence message and the score entry of the
\* user who left is not removed.
C28_LeavingAnnounced ==
  [][\A x \in Connections, room \in Rooms :
       Leaves(x, room) =>
         /\ LeftAnnounced(x, room)'
         /\ \A ref \in DOMAIN heap :
              HasScore(UserOf(x), ref) => ref \in DOMAIN heap' /\ HasScore(UserOf(x), ref)']_vars

(* ------------------------------------------------------------ claim C29 *)
\* the call of broadcastToRoom for m1 had returned when m2 was created
BroadcastBefore(m1, m2) == m1.n \in DOMAIN ended /\ ended[m1.n] < m2.n

\* the connection's socket got m1 before m2
WrittenBefore(c, m1, m2) ==
  \E i \in 1..Len(written[c]), j \in 1..Len(written[c]) :
     i < j /\ written[c][i] = m1 /\ written[c][j] = m2

\* C29: for any single connection, the messages written to its socket appear
\* in the order in which the hub broadcast them to its room: a message whose
\* broadcast was over before another one began is written first, and no two
\* connections are written the same two messages in opposite orders.
C29_WrittenInBroadcastOrder ==
  \A c \in Connections :
    \A i \in 1..Len(written[c]), j \in 1..Len(written[c]) :
       i < j =>
         /\ ~BroadcastBefore(written[c][j], written[c][i])
         /\ \A d \in Connections : ~WrittenBefore(d, written[c][j], written[c][i])

(* ------------------------------------------------------------ claim C30 *)
\* the step is the return of a room broadcast of this instance
Returned(g) == bcast[g].active /\ ~bcast'[g].active

\* the client was registered in the room when the other instance published:
\* its user_joined is not younger than the publication
ServedAt(c, m) ==
  /\ m.n \in DOMAIN ended
  /\ c \in clients
  /\ m.room \in DOMAIN rooms
  /\ c \in rooms[m.room]
  /\ \E j \in published :
        j.type = "user_joined" /\ j.user = UserOf(c) /\ j.room = m.room /\ j.n <= ended[m.n]

\* C30: a room broadcast on one hub instance is published on the shared
\* channel keyed by the room id, and every other hub instance that serves the
\* room receives it and delivers it to its local connections.
C30_BridgedAcrossInstances ==
  /\ [][\A g \in Goroutines : \A m \in {bcast[g].msg} :
          Returned(g) => m \in published' /\ m.room = bcast[g].room]_vars
  /\ [](\A c \in Connections :
          (panic = "none" /\ Quiescent /\ RemoteMessage \in published
             /\ ServedAt(c, RemoteMessage))
          => HasMessage(c, RemoteMessage))

(* ------------------------------------- the host's page: useGameEngine *)
\* how many calls of the page to the server are under way at once
MaxCalls == 2
CallIds == 1..MaxCalls

\* what the page knows of the session: the round and the status of the
\* GameEngine it was last given
ViewOf(engine) == [round |-> engine.session.current_round, status |-> engine.status]

\* the timer state of the hook after stopTimer, and after startTimer(duration)
stopTimer == [remaining_time |-> 0, is_running |-> FALSE]
startTimer(duration) == [remaining_time |-> duration, is_running |-> TRUE]

\* a fetch of the page: the route it posts to, who made it (the host's button
\* or handleTimeUp), what the page knew when it was made; then the response
NoCall ==
  [state |-> "idle", kind |-> "none", origin |-> "none",
   seen |-> [round |-> 0, status |-> "none"], code |-> "none", question |-> FALSE,
   result |-> [round |-> 0, status |-> "none"]]
Fetch(kind, origin) ==
  [NoCall EXCEPT !.state = "sent", !.kind = kind, !.origin = origin, !.seen = hook.view]

\* the responses with status 200
OkCodes == {"ok", "game_ended"}

\* the host presses "next": nextQuestion posts to /next
HostNext(r) ==
  /\ hook.mounted
  /\ hook.calls[r].state = "idle"
  /\ hook' = [hook EXCEPT !.calls[r] = Fetch("next", "host")]
  /\ UNCHANGED <<gyro, ws>>
  /\ UNCHANGED serverVars
  /\ UNCHANGED hubVars

\* the host presses "end": endGame posts to /end
HostEnd(r) ==
  /\ hook.mounted
  /\ hook.calls[r].state = "idle"
  /\ hook' = [hook EXCEPT !.calls[r] = Fetch("end", "host")]
  /\ UNCHANGED <<gyro, ws>>
  /\ UNCHANGED serverVars
  /\ UNCHANGED hubVars

\* the interval of the timer effect fires: one second less, and at zero
\* handleTimeUp, which for the host calls nextQuestion.  The effect holds an
\* interval exactly while the timer is running with time left.
TimerTick ==
  /\ hook.mounted
  /\ hook.timer.is_running
  /\ hook.timer.remaining_time > 0
  /\ IF hook.timer.remaining_time - 1 <= 0
       THEN \E r \in CallIds :
              /\ hook.calls[r].state = "idle"
              /\ hook' = [hook EXCEPT !.timer = [remaining_time |-> 0, is_running |-> FALSE],
                                      !.calls[r] = Fetch("next", "timer"),
                                      !.stale = FALSE]
       ELSE hook' = [hook EXCEPT !.timer.remaining_time = @ - 1]
  /\ UNCHANGED <<gyro, ws>>
  /\ UNCHANGED serverVars
  /\ UNCHANGED hubVars

\* the server handles a call of the page: the next route or the end route,
\* called by the host.  A host command that is applied while the page's timer
\* runs leaves that timer behind as the timer of the round before.
ServeCall(r) ==
  /\ hook.mounted
  /\ hook.calls[r].state = "sent"
  /\ LET call == hook.calls[r]
         code == IF call.kind = "next" THEN NextCode(HostUser, "s1")
                 ELSE EndCode(HostUser, "s1")
     IN /\ heap' =
             IF call.kind = "next"
               THEN CASE code = "game_ended" ->
                           Mutate(gameSessions["s1"], FinishedByNext(Engine("s1"), now))
                      [] code = "ok" ->
                           Mutate(gameSessions["s1"], AdvancedEngine(Engine("s1"), now))
                      [] OTHER -> heap
               ELSE IF code = "ok"
                      THEN Mutate(gameSessions["s1"], EndedEngine(Engine("s1"), now))
                      ELSE heap
        /\ last' = Response(call.kind, code)
        /\ hook' = [hook EXCEPT
                      !.calls[r] = [call EXCEPT
                                      !.state = "answered",
                                      !.code = code,
                                      !.question = heap'[gameSessions["s1"]].current_round.defined,
                                      !.result = ViewOf(heap'[gameSessions["s1"]])],
                      !.stale = IF call.origin = "host" /\ code \in OkCodes
                                     /\ hook.timer.is_running
                                  THEN TRUE ELSE @]
  /\ UNCHANGED <<gameSessions, roomSessions, mockGameSessions, reqs, creating, now>>
  /\ UNCHANGED <<gyro, ws>>
  /\ UNCHANGED hubVars

\* the page gets the response: a response that is not ok becomes the error of
\* the hook; after next the new engine is kept and the timer is started when
\* it has a current question; after end the timer is stopped
Receive(r) ==
  /\ hook.mounted
  /\ hook.calls[r].state = "answered"
  /\ LET call == hook.calls[r] IN
       hook' =
         IF call.code \notin OkCodes
           THEN [hook EXCEPT !.calls[r] = NoCall, !.error = call.code]
         ELSE IF call.kind = "next"
           THEN [hook EXCEPT
                   !.calls[r] = NoCall,
                   !.error = "none",
                   !.view = call.result,
                   !.timer = IF call.question
                               THEN startTimer(Engine("s1").settings.time_per_question)
                               ELSE @,
                   !.stale = IF call.question THEN FALSE ELSE @]
           ELSE [hook EXCEPT
                   !.calls[r] = NoCall,
                   !.error = "none",
                   !.view = call.result,
                   !.timer = stopTimer,
                   !.stale = FALSE]
  /\ UNCHANGED <<gyro, ws>>
  /\ UNCHANGED serverVars
  /\ UNCHANGED hubVars

\* the host's page on a started session: the hook holds the engine the server
\* holds and its timer runs
TimerStarts == {1, 2}
TimerInit ==
  /\ HubIdle
  /\ gyro = NotMounted
  /\ ws = NotMounted
  /\ reqs = [r \in ReqIds |-> "idle"]
  /\ creating = {}
  /\ now = 1
  /\ last = Response("init", "ok")
  /\ \E e \in RunningEngines :
        /\ heap = [x \in {1} |-> e]
        /\ \E left \in TimerStarts :
             hook = [mounted |-> TRUE,
                     timer |-> startTimer(left),
                     view |-> ViewOf(e),
                     calls |-> [r \in CallIds |-> NoCall],
                     error |-> "none",
                     stale |-> FALSE]
  /\ gameSessions = [x \in {"s1"} |-> 1]
  /\ roomSessions = [x \in {"room1"} |-> "s1"]
  /\ mockGameSessions = [x \in {"s1"} |-> 1]

TimerNext ==
  \/ \E r \in CallIds : HostNext(r)
  \/ \E r \in CallIds : HostEnd(r)
  \/ TimerTick
  \/ \E r \in CallIds : ServeCall(r)
  \/ \E r \in CallIds : Receive(r)

TimerSpec == TimerInit /\ [][TimerNext]_vars

(* ------------------------------------------------------------ claim C31 *)
\* the step is an expiry of the page's timer: handleTimeUp posts to /next
TimerFires ==
  /\ hook.timer.is_running
  /\ ~hook'.timer.is_running
  /\ \E r \in CallIds :
        /\ hook.calls[r].state = "idle"
        /\ hook'.calls[r].state = "sent"
        /\ hook'.calls[r].origin = "timer"

LateTimerAdvance(r) ==
  /\ hook.calls[r].state = "sent"
  /\ hook.calls[r].kind = "next"
  /\ hook.calls[r].origin = "timer"
  /\ hook.calls[r].seen # ViewOf(Engine("s1"))
  /\ hook'.calls[r].state = "answered"

\* the session keeps its status, its round and its question
SessionKept ==
  /\ Engine("s1")'.status = Engine("s1").status
  /\ Engine("s1")'.session = Engine("s1").session
  /\ Engine("s1")'.current_round = Engine("s1").current_round

MaxWindow == 3

\* a GyroscopeData object
Reading(a, b, g) == [alpha |-> a, beta |-> b, gamma |-> g]
ZeroReading == Reading(0, 0, 0)

\* an adjustment that turns the two axes the same way at 90 and at -90
adjustSameTurn(orientation, data) ==
  CASE orientation \in {90, -90, 270} -> Reading(data.alpha, -data.gamma, data.beta)
    [] orientation = 180 -> Reading(data.alpha, -data.beta, -data.gamma)
    [] OTHER -> Reading(data.alpha, data.beta, data.gamma)

\* lib/utils adjustForOrientation, on the angle of window.screen.orientation
adjustForOrientation(orientation, data) ==
  CASE orientation = 90 -> Reading(data.alpha, -data.gamma, data.beta)
    [] orientation \in {-90, 270} -> Reading(data.alpha, data.gamma, -data.beta)
    [] orientation = 180 -> Reading(data.alpha, -data.beta, -data.gamma)
    [] OTHER -> Reading(data.alpha, data.beta, data.gamma)

\* getAdjustedData of the older hook, on window.orientation
getAdjustedData(orientation, data) ==
  CASE orientation = 90 -> Reading(data.alpha, -data.gamma, data.beta)
    [] orientation = -90 -> Reading(data.alpha, data.gamma, -data.beta)
    [] orientation = 180 -> Reading(data.alpha, -data.beta, -data.gamma)
    [] OTHER -> Reading(data.alpha, data.beta, data.gamma)

\* array.slice(0, n) for n >= 0
Slice(list, n) == SubSeq(list, 1, IF n < Len(list) THEN n ELSE Len(list))

\* a window that keeps one sample more than the smoothing factor
PushedLoose(sample, prev, factor) == Slice(<<sample>> \o prev, factor + 1)

\* the history effect: setHistory(prev => [rawData, ...prev].slice(0, smoothingFactor))
Pushed(sample, prev, factor) == Slice(<<sample>> \o prev, factor)

\* the events of the device and the rotations of the screen
OrientationEvents == {Reading(10, 20, 30), Reading(350, -40, 0)}
ScreenAngles == {0, 90, -90, 180}

\* the device reports an orientation: handleOrientationChange sets rawData to
\* the adjusted reading, and the history effect pushes it
OrientationEvent(event, angle) ==
  /\ gyro.mounted
  /\ LET adjusted == IF gyro.variant = "frontend" THEN adjustForOrientation(angle, event)
                     ELSE getAdjustedData(angle, event)
     IN gyro' = [gyro EXCEPT
                   !.rawData = adjusted,
                   !.isActive = TRUE,
                   !.history = Pushed(adjusted, gyro.history, gyro.smoothingFactor),
                   !.event = event,
                   !.angle = angle,
                   !.received = Slice(<<adjusted>> \o @, MaxWindow)]
  /\ UNCHANGED <<hook, ws>>
  /\ UNCHANGED serverVars
  /\ UNCHANGED hubVars

\* setSmoothingFactor(factor) with another factor: the history effect runs
\* again and pushes the current rawData once more
setSmoothingFactor(factor) ==
  /\ gyro.mounted
  /\ factor # gyro.smoothingFactor
  /\ gyro' = [gyro EXCEPT
                !.smoothingFactor = factor,
                !.history = Pushed(gyro.rawData, gyro.history, factor)]
  /\ UNCHANGED <<hook, ws>>
  /\ UNCHANGED serverVars
  /\ UNCHANGED hubVars

\* reset(): rawData is a new zero reading and history is emptied; the history
\* effect then runs for the new rawData
reset ==
  /\ gyro.mounted
  /\ gyro' = [gyro EXCEPT
                !.rawData = ZeroReading,
                !.isActive = FALSE,
                !.history = Pushed(ZeroReading, << >>, gyro.smoothingFactor),
                !.received = << >>]
  /\ UNCHANGED <<hook, ws>>
  /\ UNCHANGED serverVars
  /\ UNCHANGED hubVars

\* the hook after its first render and its effects, with permission granted:
\* rawData is the zero reading and the history effect has run once.
\* "received" keeps the adjusted readings of the events since the start or
\* the last reset, newest first.
GyroInit ==
  /\ HubIdle
  /\ hook = NotMounted
  /\ ws = NotMounted
  /\ reqs = [r \in ReqIds |-> "idle"]
  /\ creating = {}
  /\ now = 1
  /\ last = Response("init", "ok")
  /\ heap = EmptyMap
  /\ gameSessions = EmptyMap
  /\ roomSessions = EmptyMap
  /\ mockGameSessions = EmptyMap
  /\ \E variant \in {"frontend", "older"}, factor \in 1..MaxWindow :
       gyro = [mounted |-> TRUE,
               variant |-> variant,
               rawData |-> ZeroReading,
               isActive |-> FALSE,
               smoothingFactor |-> factor,
               history |-> Pushed(ZeroReading, << >>, factor),
               event |-> ZeroReading,
               angle |-> 0,
               received |-> << >>]

GyroNext ==
  \/ \E event \in OrientationEvents, angle \in ScreenAngles : OrientationEvent(event, angle)
  \/ \E factor \in 1..MaxWindow : setSmoothingFactor(factor)
  \/ reset

GyroSpec == GyroInit /\ [][GyroNext]_vars

(* ------------------------------------------------------------ claim C33 *)
\* the step pushes a sample into the window
Pushes(sample) ==
  /\ \E event \in OrientationEvents, angle \in ScreenAngles : OrientationEvent(event, angle)
  /\ gyro'.rawData = sample

Adjusted(angle, data) ==
  IF gyro.variant = "frontend" THEN adjustForOrientation(angle, data)
  ELSE getAdjustedData(angle, data)

\* C34: the screen-rotation correction leaves alpha unchanged and maps
\* (beta, gamma) to itself at 0 degrees, to (-gamma, beta) at 90, to
\* (gamma, -beta) at -90 and to (-beta, -gamma) at 180; so correcting at 90
\* and then at -90 gives the original reading back, and so does correcting
\* twice at 180.
C34_RotationLookup ==
  (gyro.mounted /\ gyro.isActive) =>
     LET e == gyro.event
     IN /\ gyro.rawData.alpha = e.alpha
        /\ gyro.angle = 0 => gyro.rawData = Reading(e.alpha, e.beta, e.gamma)
        /\ gyro.angle = 90 => gyro.rawData = Reading(e.alpha, -e.gamma, e.beta)
        /\ gyro.angle = -90 => gyro.rawData = Reading(e.alpha, e.gamma, -e.beta)
        /\ gyro.angle = 180 => gyro.rawData = Reading(e.alpha, -e.beta, -e.gamma)
        /\ Adjusted(-90, Adjusted(90, e)) = e
        /\ Adjusted(180, Adjusted(180, e)) = e

\* an event with two different tilts was corrected at 90 degrees
C34_Witness ==
  /\ gyro.mounted
  /\ gyro.isActive
  /\ gyro.angle = 90
  /\ gyro.event = Reading(10, 20, 30)
  /\ gyro.rawData = Reading(10, -30, 20)

(* ------------------------------------------------------------ claim C36 *)
RECURSIVE SumOf(_, _)
\* history.reduce((sum, item) => sum + item[axis], 0)
SumOf(list, axis) ==
  IF list = << >> THEN 0 ELSE Head(list)[axis] + SumOf(Tail(list), axis)

Axes == {"alpha", "beta", "gamma"}

\* filteredData: the mean of the history on every axis, 0 for an empty
\* history, as the fraction num/den
filteredData ==
  [axis \in Axes |->
     IF Len(gyro.history) > 0
     THEN [num |-> SumOf(gyro.history, axis), den |-> Len(gyro.history)]
     ELSE [num |-> 0, den |-> 1]]

\* the fraction is the mean of the samples
IsMeanOf(fraction, samples, axis) ==
  fraction.num * Len(samples) = SumOf(samples, axis) * fraction.den

\* C36: the normalized reading is the arithmetic mean of the last min(k, N)
\* real samples, k being the number of events since the hook started or was
\* last reset and N the smoothing factor; no placeholder sample (the initial
\* zero or the zero set by a reset) is part of the average; and after
\* reset() the window is empty.
C36_MeanOfRealSamples ==
  /\ []((gyro.mounted /\ gyro.received # << >>) =>
          /\ Len(gyro.history) <= Len(gyro.received)
          /\ \A axis \in Axes :
               IsMeanOf(filteredData[axis], Slice(gyro.received, gyro.smoothingFactor), axis))
  /\ [][reset => gyro'.history = << >>]_vars

(* ------------------------------------------------------------ claim C35 *)
\* the connection can be reached through h.clients or through a room of h.rooms
Reachable(c) == c \in clients \/ \E room \in DOMAIN rooms : c \in rooms[room]

\* C35: under every interleaving of the hub loop with the room broadcasts of
\* the read loops, a send channel is closed at most once and nothing is sent
\* on it after it was closed, so that no panic state is reachable; a
\* connection whose channel was closed is no longer reachable through
\* h.rooms or h.clients.
C35_ClosedOnceNeverSentOn ==
  /\ panic = "none"
  /\ \A c \in Connections : send[c].closed => ~Reachable(c)

(* --------------------------------------------- the WebSocket client hook *)
\* the sockets one run of the hook creates
MaxSockets == 4
SocketIds == 1..MaxSockets

\* the options of the hook: the values of reconnectAttempts (5 by default)
\* and reconnectDelay in milliseconds
ReconnectAttempts == {1, 2}
reconnectDelay == 1000

\* the rooms and the token the page joins with
JoinRooms == {"room1", "room2"}
JoinToken == "t1"

\* the close codes: a normal closure and an abnormal one
NormalClosure == 1000
AbnormalClosure == 1006

RECURSIVE Pow2(_)
\* Math.pow(2, n)
Pow2(n) == IF n = 0 THEN 1 ELSE 2 * Pow2(n - 1)

\* the delay of the reconnect that onclose schedules
ReconnectDelayOf(count) == reconnectDelay * Pow2(count)

NoSocket == [state |-> "none", code |-> 0, auto |-> FALSE, opened |-> FALSE]
NoTimer == [pending |-> FALSE, delay |-> 0]

\* the sockets that were created
Created(w) == {s \in SocketIds : w.socket[s].state # "none"}

\* socketRef.current?.readyState === WebSocket.OPEN
RefOpen(w) == w.socketRef # 0 /\ w.socket[w.socketRef].state = "open"

\* connect(): nothing when the current socket is open, otherwise a new
\* socket that becomes the current one; "auto" says that a reconnect timer
\* made the call
connect(w, auto) ==
  IF RefOpen(w) THEN w
  ELSE LET s == Cardinality(Created(w)) + 1
       IN [w EXCEPT !.socket[s] = [state |-> "connecting", code |-> 0,
                                   auto |-> auto, opened |-> FALSE],
                    !.socketRef = s]

\* connect() can create its socket
CanConnect(w) == RefOpen(w) \/ Cardinality(Created(w)) < MaxSockets

\* sendMessage of the join message: sent on the current socket when it is
\* open (the isConnecting and error states of the hook are left out)
sendJoin(w, roomId) ==
  IF RefOpen(w) THEN [w EXCEPT !.sent[w.socketRef] = roomId]
  ELSE w

\* joinRoom(roomId, token)
joinRoom(w, roomId, token) ==
  sendJoin([w EXCEPT !.roomId = roomId, !.token = token], roomId)

\* socket.onclose of socket s
onclose(w, s, code) ==
  LET closed == [w EXCEPT !.socket[s] = [NoSocket EXCEPT !.state = "closed", !.code = code],
                          !.isConnected = FALSE,
                          !.failed = IF w.socket[s].auto /\ ~w.socket[s].opened
                                       THEN @ + 1 ELSE @]
  IN IF code # NormalClosure /\ w.reconnectCount < w.reconnectAttempts
       THEN [closed EXCEPT
               !.timer[s] = [pending |-> TRUE, delay |-> ReconnectDelayOf(w.reconnectCount)],
               !.reconnectTimeoutRef = s]
       ELSE closed

\* the page calls connect()
Connect ==
  /\ ws.mounted
  /\ CanConnect(ws)
  /\ ws' = [connect(ws, FALSE) EXCEPT !.quiet = FALSE]
  /\ UNCHANGED <<hook, gyro>>
  /\ UNCHANGED serverVars
  /\ UNCHANGED hubVars

\* the connection of socket s is established: socket.onopen
SocketOpen(s) ==
  /\ ws.mounted
  /\ ws.socket[s].state = "connecting"
  /\ LET opened == [ws EXCEPT !.socket[s].state = "open",
                              !.socket[s].opened = TRUE,
                              !.failed = 0,
                              !.isConnected = TRUE,
                              !.reconnectCount = 0,
                              !.tries = 0]
     IN ws' = IF opened.roomId # "none" /\ opened.token # "none"
                THEN joinRoom(opened, opened.roomId, opened.token)
                ELSE opened
  /\ UNCHANGED <<hook, gyro>>
  /\ UNCHANGED serverVars
  /\ UNCHANGED hubVars

\* the connection of socket s cannot be established: socket.onerror, then
\* socket.onclose with an abnormal code
SocketFail(s) ==
  /\ ws.mounted
  /\ ws.socket[s].state = "connecting"
  /\ ws' = onclose(ws, s, AbnormalClosure)
  /\ UNCHANGED <<hook, gyro>>
  /\ UNCHANGED serverVars
  /\ UNCHANGED hubVars

\* the open connection of socket s ends from the other side, with a close
\* frame (code 1000) or without one
SocketDrop(s, code) ==
  /\ ws.mounted
  /\ ws.socket[s].state = "open"
  /\ ws' = onclose(ws, s, code)
  /\ UNCHANGED <<hook, gyro>>
  /\ UNCHANGED serverVars
  /\ UNCHANGED hubVars

\* the close event of a socket that close(1000, ...) was called on
SocketClosed(s) ==
  /\ ws.mounted
  /\ ws.socket[s].state = "closing"
  /\ ws' = onclose(ws, s, ws.socket[s].code)
  /\ UNCHANGED <<hook, gyro>>
  /\ UNCHANGED serverVars
  /\ UNCHANGED hubVars

\* the reconnect timer that the close of socket s scheduled fires
ReconnectTimer(s) ==
  /\ ws.mounted
  /\ ws.timer[s].pending
  /\ LET fired == [ws EXCEPT !.timer[s] = NoTimer,
                             !.reconnectCount = @ + 1,
                             !.tries = @ + 1]
     IN /\ CanConnect(fired)
        /\ ws' = connect(fired, TRUE)
  /\ UNCHANGED <<hook, gyro>>
  /\ UNCHANGED serverVars
  /\ UNCHANGED hubVars

\* WebSocket.close(1000, reason): an open socket closes with the code given;
\* a socket that is still connecting fails, and its close event has the
\* abnormal code; a socket that is closing or closed stays as it is
closeSocket(socket) ==
  CASE socket.state = "open" -> [socket EXCEPT !.state = "closing", !.code = NormalClosure]
    [] socket.state = "connecting" ->
         [socket EXCEPT !.state = "closing", !.code = AbnormalClosure]
    [] OTHER -> socket

\* the page calls disconnect()
Disconnect ==
  /\ ws.mounted
  /\ ws' = [ws EXCEPT
              !.timer = IF ws.reconnectTimeoutRef # 0
                          THEN [@ EXCEPT ![ws.reconnectTimeoutRef] = NoTimer]
                          ELSE @,
              !.reconnectTimeoutRef = 0,
              !.socket = IF ws.socketRef # 0
                           THEN [@ EXCEPT ![ws.socketRef] = closeSocket(@)]
                           ELSE @,
              !.socketRef = 0,
              !.isConnected = FALSE,
              !.reconnectCount = 0,
              !.roomId = "none",
              !.token = "none",
              !.quiet = TRUE,
              !.failed = 0,
              !.tries = 0]
  /\ UNCHANGED <<hook, gyro>>
  /\ UNCHANGED serverVars
  /\ UNCHANGED hubVars

\* the page calls joinRoom(roomId, token)
JoinRoom(roomId) ==
  /\ ws.mounted
  /\ ws' = joinRoom(ws, roomId, JoinToken)
  /\ UNCHANGED <<hook, gyro>>
  /\ UNCHANGED serverVars
  /\ UNCHANGED hubVars

\* the hook after its first render, autoConnect being off. "quiet" says that
\* disconnect() was called and connect() was not called since; "tries" counts
\* the connections the reconnect timers made since the last open or
\* disconnect(), "failed" the ones of them that closed without opening, and
\* "sent" the room of the last join message sent on each socket.
WsInit ==
  /\ HubIdle
  /\ hook = NotMounted
  /\ gyro = NotMounted
  /\ reqs = [r \in ReqIds |-> "idle"]
  /\ creating = {}
  /\ now = 1
  /\ last = Response("init", "ok")
  /\ heap = EmptyMap
  /\ gameSessions = EmptyMap
  /\ roomSessions = EmptyMap
  /\ mockGameSessions = EmptyMap
  /\ \E attempts \in ReconnectAttempts :
     ws = [mounted |-> TRUE,
           reconnectAttempts |-> attempts,
           socket |-> [s \in SocketIds |-> NoSocket],
           socketRef |-> 0,
           timer |-> [s \in SocketIds |-> NoTimer],
           reconnectTimeoutRef |-> 0,
           reconnectCount |-> 0,
           roomId |-> "none",
           token |-> "none",
           isConnected |-> FALSE,
           sent |-> [s \in SocketIds |-> "none"],
           quiet |-> FALSE,
           failed |-> 0,
           tries |-> 0]

WsNext ==
  \/ Connect
  \/ Disconnect
  \/ \E roomId \in JoinRooms : JoinRoom(roomId)
  \/ \E s \in SocketIds : SocketOpen(s)
  \/ \E s \in SocketIds : SocketFail(s)
  \/ \E s \in SocketIds, code \in {NormalClosure, AbnormalClosure} : SocketDrop(s, code)
  \/ \E s \in SocketIds : SocketClosed(s)
  \/ \E s \in SocketIds : ReconnectTimer(s)

WsSpec == WsInit /\ [][WsNext]_vars

(* ------------------------------------------------------------ claim C37 *)
\* the step is the close event of socket s with an abnormal code
ClosesAbnormally(s) ==
  /\ ws.socket[s].state \in {"connecting", "open", "closing"}
  /\ ws'.socket[s].state = "closed"
  /\ ws'.socket[s].code # NormalClosure

\* the step is the open event of socket s
Opens(s) == ws.socket[s].state = "connecting" /\ ws'.socket[s].state = "open"

\* C37: after an abnormal close (a code other than 1000) the client
\* schedules a reconnect with the delay reconnectDelay * 2^k, k being the
\* number of consecutive failed attempts so far; it makes at most
\* reconnectAttempts consecutive attempts without a successful open; the
\* attempt counter returns to 0 on every successful open; and on a
\* successful reconnect the join for the last room joined is sent again.
C37_ReconnectBackoff ==
  /\ [][\A s \in SocketIds :
          (ClosesAbnormally(s) /\ ~ws.quiet /\ ws'.failed < ws.reconnectAttempts) =>
             ws'.timer[s] = [pending |-> TRUE, delay |-> reconnectDelay * Pow2(ws'.failed)]]_vars
  /\ [](ws.mounted => ws.tries <= ws.reconnectAttempts)
  /\ [][\A s \in SocketIds : Opens(s) => ws'.reconnectCount = 0]_vars
  /\ [][\A s \in SocketIds, roomId \in JoinRooms :
          (Opens(s) /\ ws.socket[s].auto /\ ws.roomId = roomId) =>
             ws'.sent[s] = roomId]_vars

(* ------------------------------------------------------------ claim C38 *)
\* a reconnect timer is pending
TimerPending == \E s \in SocketIds : ws.timer[s].pending

\* C38: after disconnect() no further connection attempt is made until
\* connect() is called again: a pending reconnect timer is cancelled, the
\* close that disconnect() triggers schedules no reconnect, and the
\* remembered room and token are cleared.
C38_DisconnectIsFinal ==
  /\ [][(ws.mounted /\ ws.quiet /\ ws'.quiet) => Created(ws') = Created(ws)]_vars
  /\ []((ws.mounted /\ ws.quiet) => ~TimerPending)
  /\ [][Disconnect => (ws'.roomId = "none" /\ ws'.token = "none")]_vars

(* ------------------------------------- the two session-creation endpoints *)
\* the session ids the create requests generate or name in their path
CreateIds == {"s1", "s2"}

\* the store of a server that has just started
CreateInit ==
  /\ HubIdle
  /\ ClientIdle
  /\ reqs = [r \in ReqIds |-> "idle"]
  /\ creating = {}
  /\ now = 1
  /\ last = Response("init", "ok")
  /\ heap = EmptyMap
  /\ gameSessions = EmptyMap
  /\ roomSessions = EmptyMap
  /\ mockGameSessions = EmptyMap

\* create requests through both endpoints, the one with the id in its path
\* suspended at its await while other requests run, and the host starting
\* and ending the sessions
CreateNext ==
  \/ \E caller \in Callers, room \in Rooms \cup {""}, sid \in CreateIds,
        n \in 1..MaxRounds, types \in QuestionTypeLists, speed \in SpeedBonusInputs :
       CreateSession(caller, room, sid, n, types, speed)
  \/ \E caller \in Callers, room \in Rooms \cup {""} : CreateWithIdBegin(caller, room)
  \/ \E room \in Rooms, sid \in CreateIds, n \in 0..MaxRounds,
        types \in QuestionTypeLists, speed \in SpeedBonusInputs :
       CreateWithIdStore(room, sid, n, types, speed)
  \/ \E caller \in Callers, sid \in CreateIds : StartGame(caller, sid)
  \/ \E caller \in Callers, sid \in CreateIds : EndGame(caller, sid)

CreateSpec == CreateInit /\ [][CreateNext]_vars

(* ------------------------------------------------------------ claim C39 *)
\* the sessions of the room that are not finished
NotFinished(room) ==
  {sid \in DOMAIN gameSessions :
     /\ Engine(sid).session.room_id = room
     /\ Engine(sid).session.status # "finished"}

\* the step is the room check of a create request of a signed-in user
CreateRequest(room) ==
  \/ \E caller \in Users : CreateWithIdBegin(caller, room)
  \/ \E caller \in Users, sid \in CreateIds, n \in 1..MaxRounds,
        types \in QuestionTypeLists, speed \in SpeedBonusInputs :
       CreateSession(caller, room, sid, n, types, speed)

\* C39: at any time a room has at most one game session that is not
\* finished; a create request for a room that has such a session is rejected
\* with SESSION_EXISTS, through either endpoint and under any interleaving of
\* concurrent create requests.
C39_OneLiveSessionPerRoom ==
  /\ [](\A room \in Rooms : Cardinality(NotFinished(room)) <= 1)
  /\ [][\A room \in Rooms :
          (CreateRequest(room) /\ NotFinished(room) # {}) =>
             last'.code = "SESSION_EXISTS"]_vars

====
